---- MODULE Spec2Model ----
(***************************************************************************)
(* artha-api: the fixed-window rate limiter, the owner gate, the           *)
(* category/transaction store and the dashboard aggregation.               *)
(*                                                                         *)
(* Eleven specifications share the variables:                              *)
(*   SpecRL     checkRateLimit called directly, as the clock advances       *)
(*   Spec       the application: one client's requests through the rate     *)
(*              limiters, the owner gate and the route handlers             *)
(*   SpecStore  the route handlers of the owner's requests, two requests    *)
(*              in flight, interleaved at every await                       *)
(*   SpecAgg    the dashboard queries over a store drawn from bounded sets  *)
(*   SpecList   the transaction list over a store drawn from bounded sets   *)
(*   SpecCurrency  the currency conversions of every small dollar amount    *)
(*   SpecPair   both rate-limit backends given the same calls               *)
(*   SpecDeny   the application with a rate-limit window almost spent       *)
(*   SpecClients  requests of two clients, with and without proxy headers   *)
(*   SpecProc   checkRateLimit with two callers interleaved at every await  *)
(*   SpecBurst  checkRateLimit on one key with the calls of the last window *)
(***************************************************************************)
EXTENDS Integers, Sequences, FiniteSets, TLC

VARIABLES
    now,            \* Date.now(), in milliseconds
    upstashRedis,   \* TRUE when the Upstash client is configured (non-null)
    inMemoryStore,  \* Map<string, RateLimitRecord>
    redisStore,     \* the keys of the shared store: counter and expiry
    options,        \* SpecRL: the RateLimitOptions the check is called with
    lastCheck,      \* the last checkRateLimit call: its input and its result
    win,            \* history: per key, the window the calls fall in
    OWNER_EMAIL,    \* process.env.OWNER_EMAIL
    categories,     \* the categories table: id -> row
    transactions,   \* the transactions table: id -> row
    catSeq,         \* ids the categories table has handed out
    txSeq,          \* ids the transactions table has handed out
    reqs,           \* the requests in flight, and the responses they got
    issued,         \* number of requests received so far
    dash,           \* SpecAgg: the last query, when it was a getSummary
    grouped,        \* SpecAgg: the last query, when it was a getByCategory
    listed,         \* SpecList: the last TransactionService.list call
    calc,           \* SpecCurrency: the last currency conversion
    pair,           \* SpecPair: the last check, made on both backends
    caller,         \* SpecClients: the client of the last request, and how
                    \* many requests each client has sent
    procs,          \* SpecProc: the checkRateLimit calls in flight
    hist            \* SpecProc: history of the key's stored window

rlVars == <<now, upstashRedis, inMemoryStore, redisStore, options, lastCheck, win>>

dbVars == <<categories, transactions, catSeq, txSeq>>

vars == <<now, upstashRedis, inMemoryStore, redisStore, options, lastCheck, win,
          OWNER_EMAIL, categories, transactions, catSeq, txSeq, reqs, issued, dash,
          grouped, listed, calc, pair, caller, procs, hist>>

\* the results of the read queries and of the conversions
queryVars == <<dash, grouped, listed, calc>>

\* the records of the specifications of the rate limiter's backends
procVars == <<pair, caller, procs, hist>>

----------------------------------------------------------------------------
(* Bounds *)

MaxWindows == 2     \* the clock runs over this many windows, and one more
MaxN == 3           \* SpecRL draws maxRequests from 1..MaxN
MaxCats == 2        \* rows the categories table ever holds
MaxTxs == 2         \* rows the transactions table ever holds
MaxRequests == 4    \* requests received in one run

(* Program constants *)

WindowMs == 60000   \* windowMs: 60 * 1000
AuthMax == 5        \* authRateLimit.maxRequests
ApiMax == 100       \* apiRateLimit.maxRequests

----------------------------------------------------------------------------
(* Time.  The clock takes the values around the window boundaries: the     *)
(* start of a window, one millisecond later and the last millisecond; the  *)
(* set is closed under adding WindowMs.                                    *)

Offsets == {0, 1, WindowMs - 1}

TimePoints == {k * WindowMs + d : k \in 0..MaxWindows, d \in Offsets}

Max(a, b) == IF a >= b THEN a ELSE b

\* Math.ceil(a / b) for a >= 0, b > 0
Ceil(a, b) == (a + b - 1) \div b

----------------------------------------------------------------------------
(* The rate limiter: checkRateLimit                                        *)

\* A path is a route and the id in it (0: none): c.req.path
Path(route, id) == <<route, id>>

RateLimitKeyIpOnly(ip, path) == <<ip>>

\* c.req.header("x-forwarded-for") || c.req.header("cf-connecting-ip") ||
\* "unknown"; "" is a header the request does not carry
ClientIp(xForwardedFor, cfConnectingIp) ==
    IF xForwardedFor # "" THEN xForwardedFor
    ELSE IF cfConnectingIp # "" THEN cfConnectingIp
    ELSE "unknown"

\* `ratelimit:${ip}:${path}`
RateLimitKey(ip, path) == <<ip>> \o path

\* the keys SpecRL calls the check with
RLKeys == {RateLimitKey("10.0.0.1", Path(p, 0)) :
              p \in {"/api/auth/signin", "/api/categories"}}

\* map.get(key), `absent` when the map does not hold the key
Get(map, key, absent) == IF key \in DOMAIN map THEN map[key] ELSE absent

\* map.set(key, value)
Set(map, key, value) ==
    [k \in DOMAIN map \cup {key} |-> IF k = key THEN value ELSE map[k]]

\* inMemoryStore.get(key) === undefined
NoRecord == [count |-> 0, resetTime |-> -1]

\* a key the shared store does not hold; expireAt = -1: no expiry set
NoKey == [count |-> 0, expireAt |-> -1]

RateLimitResult(allowed, remaining, resetTime) ==
    [allowed |-> allowed, remaining |-> remaining, resetTime |-> resetTime]

\* The in-memory branch: the record after the call and the result.
InMemoryCheckOffByOne(record, windowMs, maxRequests, t) ==
    IF record = NoRecord \/ record.resetTime < t
    THEN [record |-> [count |-> 1, resetTime |-> t + windowMs],
          result |-> RateLimitResult(TRUE, maxRequests - 1, t + windowMs)]
    ELSE IF record.count > maxRequests
    THEN [record |-> record,
          result |-> RateLimitResult(FALSE, 0, record.resetTime)]
    ELSE [record |-> [record EXCEPT !.count = @ + 1],
          result |-> RateLimitResult(TRUE, maxRequests - (record.count + 1),
                                     t + windowMs)]

InMemoryCheck(record, windowMs, maxRequests, t) ==
    IF record = NoRecord \/ record.resetTime < t
    THEN [record |-> [count |-> 1, resetTime |-> t + windowMs],
          result |-> RateLimitResult(TRUE, maxRequests - 1, t + windowMs)]
    ELSE IF record.count >= maxRequests
    THEN [record |-> record,
          result |-> RateLimitResult(FALSE, 0, record.resetTime)]
    ELSE [record |-> [record EXCEPT !.count = @ + 1],
          result |-> RateLimitResult(TRUE, maxRequests - (record.count + 1),
                                     t + windowMs)]

\* The shared store drops a key once its expiry time has passed.
RedisLiveExpiringEarly(entry, t) ==
    IF entry.expireAt # -1 /\ entry.expireAt <= t THEN NoKey ELSE entry

RedisLive(entry, t) ==
    IF entry.expireAt # -1 /\ entry.expireAt < t THEN NoKey ELSE entry

\* INCR: creates the key at 1 (with no expiry) or adds one
RedisIncr(entry, t) == [RedisLive(entry, t) EXCEPT !.count = @ + 1]

\* EXPIRE key seconds
RedisExpire(entry, seconds, t) ==
    IF RedisLive(entry, t) = NoKey THEN NoKey
    ELSE [RedisLive(entry, t) EXCEPT !.expireAt = t + seconds * 1000]

\* The Upstash branch: the key after the call and the result.
UpstashCheck(entry, windowMs, maxRequests, t) ==
    LET incremented == RedisIncr(entry, t)
        count == incremented.count
    IN  [entry |-> IF count = 1
                   THEN RedisExpire(incremented, Ceil(windowMs, 1000), t)
                   ELSE incremented,
         result |-> RateLimitResult(count <= maxRequests,
                                    Max(0, maxRequests - count),
                                    t + windowMs)]

\* The calls of the Upstash branch that can throw while the store cannot be
\* reached: none (""), incr, or the expire that follows a first incr.  The
\* in-memory branch makes no call that throws.
StoreFaults(entry, t) ==
    IF ~upstashRedis THEN {""}
    ELSE IF RedisIncr(entry, t).count = 1 THEN {"", "incr", "expire"}
    ELSE {"", "incr"}

\* The shared store after an Upstash branch that threw at `fault`: a failed
\* incr leaves it alone, a failed expire leaves the key incremented with no
\* expiry.
UpstashFaulted(redis, key, fault, t) ==
    IF fault = "incr" THEN redis
    ELSE Set(redis, key, RedisIncr(Get(redis, key, NoKey), t))

\* checkRateLimit(key, windowMs, maxRequests): the stores after the call
\* and the result, at clock value t.
checkRateLimit(mem, redis, key, windowMs, maxRequests, t) ==
    IF upstashRedis
    THEN LET r == UpstashCheck(Get(redis, key, NoKey), windowMs, maxRequests, t)
         IN  [mem |-> mem, redis |-> Set(redis, key, r.entry),
              result |-> r.result]
    ELSE LET r == InMemoryCheck(Get(mem, key, NoRecord), windowMs, maxRequests, t)
         IN  [mem |-> Set(mem, key, r.record), redis |-> redis,
              result |-> r.result]

----------------------------------------------------------------------------
(* History of the calls on a key.  A window opens with a call made more    *)
(* than windowMs after the window before it opened, and holds the calls    *)
(* made less than windowMs after it opened.  A call made exactly windowMs  *)
(* after the opening is on the boundary: the history then stops counting   *)
(* for the key until a call comes more than windowMs after the last one.   *)

NoWindow == [tracked |-> FALSE, start |-> -1, calls |-> 0]

WindowAfterCall(w, windowMs, t) ==
    IF w.start = -1 \/ t > w.start + windowMs
    THEN [tracked |-> TRUE, start |-> t, calls |-> 1]
    ELSE IF w.tracked /\ t < w.start + windowMs
    THEN [w EXCEPT !.calls = @ + 1]
    ELSE [tracked |-> FALSE, start |-> t, calls |-> 0]

NoCheck == [key |-> <<>>, at |-> -1, before |-> NoRecord,
            result |-> RateLimitResult(FALSE, 0, -1), nth |-> 0]

\* no key is checked more often than this in one window
MaxCount == MaxN + 2


----------------------------------------------------------------------------
(* Currency.  A dollar amount is held in thousandths of a dollar, so that  *)
(* the inputs include amounts below one cent: 4 is $0.004, 15 is $0.015.   *)

\* Math.round(n / d) for d > 0: the nearest integer, halves go up
MathRound(n, d) == (2 * n + d) \div (2 * d)

\* Math.round(dollars * 100)
dollarsToCents(dollars) == MathRound(dollars * 100, 1000)

centsToDollarsWhole(cents) == (cents \div 100) * 1000

\* cents / 100, in thousandths of a dollar like every dollar amount here
centsToDollars(cents) == (cents * 1000) \div 100

----------------------------------------------------------------------------
(* Calendar dates.  A date string YYYY-MM-DD is the number YYYYMMDD: the   *)
(* strings are zero-padded, so the two orders agree.                       *)

\* `${year}-${String(month).padStart(2, "0")}-${day}`
DateOf(year, month, day) == year * 10000 + month * 100 + day

YearOf(date) == date \div 10000
MonthOf(date) == (date \div 100) % 100
DayOf(date) == date % 100

IsLeapYear(y) == (y % 4 = 0 /\ y % 100 # 0) \/ y % 400 = 0

DaysInMonth(y, m) ==
    IF m = 2 THEN (IF IsLeapYear(y) THEN 29 ELSE 28)
    ELSE IF m \in {4, 6, 9, 11} THEN 30 ELSE 31

\* what the date column accepts: a day of the calendar
IsCalendarDate(date) ==
    /\ MonthOf(date) \in 1..12
    /\ DayOf(date) \in 1..DaysInMonth(YearOf(date), MonthOf(date))

----------------------------------------------------------------------------
(* The tables.  A table is a function from the ids of its rows.            *)

CatIds == 1..MaxCats
TxIds == 1..MaxTxs

Types == {"income", "expense"}

CategoryRow(name, type) == [name |-> name, type |-> type]

TransactionRow(categoryId, amountCents, transactionDate) ==
    [categoryId |-> categoryId, amountCents |-> amountCents,
     transactionDate |-> transactionDate]

Remove(table, id) == [i \in DOMAIN table \ {id} |-> table[i]]

\* the transactions whose category_id is id
Referencing(txs, id) == {i \in DOMAIN txs : txs[i].categoryId = id}

\* A statement's outcome: the error it threw ("" when none), the tables
\* after it, and the number of rows it returned.
DbResult(error, cats, txs, rows) ==
    [error |-> error, cats |-> cats, txs |-> txs, rows |-> rows]

\* db.insert(categories).values(input).returning()
InsertCategory(cats, txs, id, row) ==
    DbResult("", Set(cats, id, row), txs, 1)

\* db.update(categories).set(input).where(eq(categories.id, id)).returning()
UpdateCategory(cats, txs, id, input) ==
    IF input.name = "" /\ input.type = ""
    THEN DbResult("No values to set", cats, txs, 0)
    ELSE IF id \notin DOMAIN cats THEN DbResult("", cats, txs, 0)
    ELSE DbResult("",
            Set(cats, id,
                CategoryRow(IF input.name # "" THEN input.name ELSE cats[id].name,
                            IF input.type # "" THEN input.type ELSE cats[id].type)),
            txs, 1)

DeleteCategoryRowNoRestrict(cats, txs, id) ==
    IF id \notin DOMAIN cats THEN DbResult("", cats, txs, 0)
    ELSE DbResult("", Remove(cats, id), txs, 1)

\* db.delete(categories).where(eq(categories.id, id)).returning(), under
\* category_id's references(() => categories.id, { onDelete: "restrict" })
DeleteCategoryRow(cats, txs, id) ==
    IF id \notin DOMAIN cats THEN DbResult("", cats, txs, 0)
    ELSE IF Referencing(txs, id) # {}
    THEN DbResult("foreign key constraint", cats, txs, 0)
    ELSE DbResult("", Remove(cats, id), txs, 1)

\* db.insert(transactions).values({...}).returning(): category_id must
\* reference a row of categories
InsertTransaction(cats, txs, id, row) ==
    IF row.categoryId \notin DOMAIN cats
    THEN DbResult("foreign key constraint", cats, txs, 0)
    ELSE DbResult("", cats, Set(txs, id, row), 1)

\* updateData of TransactionService.update: the columns the input supplies
\* (amount -1, transactionDate 0, categoryId 0: not supplied)
UpdateData(input) ==
    [amountCents |-> IF input.amount # -1 THEN dollarsToCents(input.amount) ELSE -1,
     transactionDate |-> input.transactionDate,
     categoryId |-> input.categoryId]

\* db.update(transactions).set(updateData).where(eq(transactions.id, id))
UpdateTransaction(cats, txs, id, data) ==
    IF data.amountCents = -1 /\ data.transactionDate = 0 /\ data.categoryId = 0
    THEN DbResult("No values to set", cats, txs, 0)
    ELSE IF id \notin DOMAIN txs THEN DbResult("", cats, txs, 0)
    ELSE IF data.categoryId # 0 /\ data.categoryId \notin DOMAIN cats
    THEN DbResult("foreign key constraint", cats, txs, 0)
    ELSE DbResult("", cats,
            Set(txs, id,
                TransactionRow(
                    IF data.categoryId # 0 THEN data.categoryId ELSE txs[id].categoryId,
                    IF data.amountCents # -1 THEN data.amountCents ELSE txs[id].amountCents,
                    IF data.transactionDate # 0 THEN data.transactionDate
                    ELSE txs[id].transactionDate)),
            1)

\* db.delete(transactions).where(eq(transactions.id, id)).returning()
DeleteTransaction(cats, txs, id) ==
    IF id \notin DOMAIN txs THEN DbResult("", cats, txs, 0)
    ELSE DbResult("", cats, Remove(txs, id), 1)

----------------------------------------------------------------------------
(* Responses *)

Response(status, code) == [status |-> status, code |-> code]

Success == Response(200, "OK")

errorHandler(err) ==
    IF err = "issues" THEN Response(400, "VALIDATION_ERROR")
    ELSE IF err = "unique constraint" THEN Response(409, "CONFLICT")
    ELSE IF err = "foreign key constraint" THEN Response(400, "VALIDATION_ERROR")
    ELSE Response(500, "INTERNAL_ERROR")

\* the answer of a handler whose statement returned dbResult, `found` when
\* it threw nothing
AnswerOf(dbResult, found) ==
    IF dbResult.error # "" THEN errorHandler(dbResult.error) ELSE found

----------------------------------------------------------------------------
(* The owner gate *)

Owner == "owner@example.com"

\* the e-mail addresses of the sessions; "": the request carries no session
Credentials == {"", Owner, "Owner@example.com"}

NoSession == [email |-> ""]

\* auth.api.getSession({ headers })
getSession(cred) == IF cred = "" THEN NoSession ELSE [email |-> cred]

LowerCase(email) == IF email = "Owner@example.com" THEN Owner ELSE email

\* The gate's outcome: whether next() runs, the session in the context and,
\* when next() does not run, the response.
Gate(next, session, response) ==
    [next |-> next, session |-> session, response |-> response]

ownerOnlyIgnoringCase(cred, owner) ==
    LET session == getSession(cred)
    IN  IF session = NoSession
        THEN Gate(FALSE, NoSession, Response(401, "UNAUTHORIZED"))
        ELSE IF LowerCase(session.email) # LowerCase(owner)
        THEN Gate(FALSE, NoSession, Response(403, "FORBIDDEN"))
        ELSE Gate(TRUE, session, Success)

ownerOnlyFallingThrough(cred, owner) ==
    LET session == getSession(cred)
    IN  IF session = NoSession
        THEN Gate(FALSE, NoSession, Response(401, "UNAUTHORIZED"))
        ELSE Gate(TRUE, session, Success)

ownerOnlyMiddleware(cred, owner) ==
    LET session == getSession(cred)
    IN  IF session = NoSession
        THEN Gate(FALSE, NoSession, Response(401, "UNAUTHORIZED"))
        ELSE IF session.email # owner
        THEN Gate(FALSE, NoSession, Response(403, "FORBIDDEN"))
        ELSE Gate(TRUE, session, Success)

----------------------------------------------------------------------------
(* The dashboard queries *)

\* the period of a dashboard filter (month 0: the month is omitted)
DateCondition(year, month) ==
    IF month # 0
    THEN [startDate |-> DateOf(year, month, 1), endDate |-> DateOf(year, month, 31)]
    ELSE [startDate |-> DateOf(year, 1, 1), endDate |-> DateOf(year, 12, 31)]

\* FROM transactions WHERE transaction_date >= startDate AND
\* transaction_date <= endDate.  The date column compares with dates: a
\* bound that is no calendar date makes the statement fail.
SelectInPeriod(txs, cond) ==
    IF ~IsCalendarDate(cond.startDate) \/ ~IsCalendarDate(cond.endDate)
    THEN [error |-> "date/time field value out of range", rows |-> {}]
    ELSE [error |-> "",
          rows |-> {i \in DOMAIN txs :
                      /\ txs[i].transactionDate >= cond.startDate
                      /\ txs[i].transactionDate <= cond.endDate}]

\* LEFT JOIN categories: the type of the transaction's category
TypeOf(cats, txs, i) ==
    IF txs[i].categoryId \in DOMAIN cats THEN cats[txs[i].categoryId].type
    ELSE "null"

RECURSIVE SumCents(_, _)
\* SUM(amount_cents) over the rows ids
SumCents(txs, ids) ==
    IF ids = {} THEN 0
    ELSE LET i == CHOOSE x \in ids : TRUE
         IN  txs[i].amountCents + SumCents(txs, ids \ {i})

Summary(error, incomeCents, expenseCents) ==
    [error |-> error, incomeCents |-> incomeCents, expenseCents |-> expenseCents,
     balanceCents |-> incomeCents - expenseCents]

\* DashboardService.getSummary({ year, month })
getSummary(cats, txs, year, month) ==
    LET selected == SelectInPeriod(txs, DateCondition(year, month))
        ofType(type) == {i \in selected.rows : TypeOf(cats, txs, i) = type}
    IN  IF selected.error # "" THEN Summary(selected.error, 0, 0)
        ELSE Summary("", SumCents(txs, ofType("income")),
                     SumCents(txs, ofType("expense")))

\* the categories.id a selected transaction is grouped by (0: null, the
\* left join found no category)
GroupKey(cats, txs, i) ==
    IF txs[i].categoryId \in DOMAIN cats THEN txs[i].categoryId ELSE 0

\* GROUP BY categories.id, categories.name, categories.type with
\* SUM(amount_cents) and COUNT(*): one row per group of the rows ids
GroupRows(cats, txs, ids) ==
    {[categoryId |-> c,
      type |-> IF c = 0 THEN "null" ELSE cats[c].type,
      totalCents |-> SumCents(txs, {i \in ids : GroupKey(cats, txs, i) = c}),
      transactionCount |-> Cardinality({i \in ids : GroupKey(cats, txs, i) = c})] :
        c \in {GroupKey(cats, txs, i) : i \in ids}}

\* the sequences that hold each element of the set once
Orderings(set) ==
    {seq \in [1..Cardinality(set) -> set] :
        \A a, b \in 1..Cardinality(set) : a # b => seq[a] # seq[b]}

\* ORDER BY SUM(amount_cents) DESC: no other sort key is given, so rows of
\* equal total come in whatever order the database produces them
OrderByTotalDesc(rows) ==
    {seq \in Orderings(rows) :
        \A a, b \in DOMAIN seq : a < b => seq[a].totalCents >= seq[b].totalCents}

\* result.filter((r) => r.type === type)
FilterType(result, type) ==
    LET RECURSIVE keep(_)
        keep(k) == IF k > Len(result) THEN <<>>
                   ELSE IF result[k].type = type THEN <<result[k]>> \o keep(k + 1)
                   ELSE keep(k + 1)
    IN  keep(1)

ByCategory(error, income, expense) ==
    [error |-> error, income |-> income, expense |-> expense]

\* DashboardService.getByCategory({ year, month }): the results it can return
getByCategory(cats, txs, year, month) ==
    LET selected == SelectInPeriod(txs, DateCondition(year, month))
    IN  IF selected.error # "" THEN {ByCategory(selected.error, <<>>, <<>>)}
        ELSE {ByCategory("", FilterType(result, "income"), FilterType(result, "expense")) :
                result \in OrderByTotalDesc(GroupRows(cats, txs, selected.rows))}

----------------------------------------------------------------------------
(* TransactionService.list.  A field the filter does not supply is          *)
(* startDate 0, endDate 0, categoryId 0, type "".                           *)

TransactionFilter(page, limit, startDate, endDate, categoryId, type) ==
    [page |-> page, limit |-> limit, startDate |-> startDate, endDate |-> endDate,
     categoryId |-> categoryId, type |-> type]

\* whereClause of list over transactions LEFT JOIN categories: row i
\* satisfies every condition the filter supplies
WhereClause(cats, txs, i, filter) ==
    /\ filter.startDate # 0 => txs[i].transactionDate >= filter.startDate
    /\ filter.endDate # 0 => txs[i].transactionDate <= filter.endDate
    /\ filter.categoryId # 0 => txs[i].categoryId = filter.categoryId
    /\ filter.type # "" => TypeOf(cats, txs, i) = filter.type

\* orderBy(desc(transactions.transactionDate)): rows of one date come in
\* whatever order the database produces them
OrderByDateDesc(txs, ids) ==
    {seq \in Orderings(ids) :
        \A a, b \in DOMAIN seq :
            a < b => txs[seq[a]].transactionDate >= txs[seq[b]].transactionDate}

OffsetOfZeroBased(page, limit) == page * limit

\* offset = (page - 1) * limit
OffsetOf(page, limit) == (page - 1) * limit

\* .limit(limit).offset(offset)
LimitOffset(seq, limit, offset) ==
    LET n == Max(0, IF Len(seq) - offset < limit THEN Len(seq) - offset ELSE limit)
    IN  [k \in 1..n |-> seq[offset + k]]

\* the count query: select count(*) from transactions where whereClause.
\* It has no join, so a condition on categories.type has no table to refer to.
CountQuery(cats, txs, filter) ==
    IF filter.type # ""
    THEN [error |-> "missing FROM-clause entry for table categories", count |-> 0]
    ELSE [error |-> "",
          count |-> Cardinality({i \in DOMAIN txs : WhereClause(cats, txs, i, filter)})]

ListResult(error, data, total) == [error |-> error, data |-> data, total |-> total]

\* TransactionService.list(filter): the results it can return; data holds
\* the ids of the rows
list(cats, txs, filter) ==
    LET matching == {i \in DOMAIN txs : WhereClause(cats, txs, i, filter)}
        counted == CountQuery(cats, txs, filter)
    IN  IF counted.error # "" THEN {ListResult(counted.error, <<>>, 0)}
        ELSE {ListResult("", LimitOffset(seq, filter.limit,
                                         OffsetOf(filter.page, filter.limit)),
                         counted.count) :
                seq \in OrderByDateDesc(txs, matching)}

----------------------------------------------------------------------------
(* Requests.  A request is an operation of a route module with its input.  *)
(* A field the input does not supply is id 0, categoryId 0, amount -1,     *)
(* transactionDate 0, name "", type "", month 0.                           *)

Input(id, categoryId, amount, transactionDate, name, type, year, month) ==
    [id |-> id, categoryId |-> categoryId, amount |-> amount,
     transactionDate |-> transactionDate, name |-> name, type |-> type,
     year |-> year, month |-> month]

NoInput == Input(0, 0, -1, 0, "", "", 0, 0)

Operation(op, input) == [op |-> op, input |-> input]

\* amounts in thousandths of a dollar: none, $0.004, $0.015
Amounts == {0, 4, 15}

StoreDates == {20240131}

\* the calls on the services, with their inputs
ServiceCalls ==
    {Operation("categories.list", NoInput), Operation("transactions.list", NoInput)}
    \cup {Operation("categories.get", [NoInput EXCEPT !.id = i]) : i \in CatIds}
    \cup {Operation("categories.create", [NoInput EXCEPT !.name = "Food", !.type = t]) :
            t \in Types}
    \cup {Operation("categories.update", [NoInput EXCEPT !.id = i, !.type = "income"]) :
            i \in CatIds}
    \cup {Operation("categories.delete", [NoInput EXCEPT !.id = i]) : i \in CatIds}
    \cup {Operation("transactions.get", [NoInput EXCEPT !.id = i]) : i \in TxIds}
    \cup {Operation("transactions.create",
                    [NoInput EXCEPT !.categoryId = c, !.amount = a,
                                    !.transactionDate = d]) :
            c \in CatIds, a \in Amounts, d \in StoreDates}
    \cup {Operation("transactions.update", [NoInput EXCEPT !.id = i, !.amount = a]) :
            i \in TxIds, a \in Amounts}
    \cup {Operation("transactions.update", [NoInput EXCEPT !.id = i, !.categoryId = c]) :
            i \in TxIds, c \in CatIds}
    \cup {Operation("transactions.delete", [NoInput EXCEPT !.id = i]) : i \in TxIds}
    \cup {Operation("transactions.update", [NoInput EXCEPT !.id = 1]),
          Operation("categories.update", [NoInput EXCEPT !.id = 1])}
    \cup {Operation(op, [NoInput EXCEPT !.year = 2024, !.month = m]) :
            op \in {"dashboard.summary", "dashboard.byCategory"}, m \in {0, 1, 2}}

\* the requests the application receives: one per route
RouteCalls ==
    {Operation("auth", NoInput),
     Operation("categories.list", NoInput),
     Operation("categories.get", [NoInput EXCEPT !.id = 1]),
     Operation("categories.create", [NoInput EXCEPT !.name = "Food", !.type = "expense"]),
     Operation("categories.update", [NoInput EXCEPT !.id = 1, !.name = "Rent"]),
     Operation("categories.delete", [NoInput EXCEPT !.id = 1]),
     Operation("transactions.list", NoInput),
     Operation("transactions.get", [NoInput EXCEPT !.id = 1]),
     Operation("transactions.create",
               [NoInput EXCEPT !.categoryId = 1, !.amount = 15,
                               !.transactionDate = 20240131]),
     Operation("transactions.update", [NoInput EXCEPT !.id = 1, !.amount = 4]),
     Operation("transactions.delete", [NoInput EXCEPT !.id = 1]),
     Operation("dashboard.summary", [NoInput EXCEPT !.year = 2024, !.month = 1]),
     Operation("dashboard.byCategory", [NoInput EXCEPT !.year = 2024, !.month = 2])}

\* x-forwarded-for || cf-connecting-ip || "unknown": Spec follows the
\* requests of one client
IPs == {"10.0.0.1"}

\* c.req.path of a request
PathOf(call) ==
    IF call.op = "auth" THEN Path("/api/auth/signin", 0)
    ELSE IF call.op \in {"categories.list", "categories.create"}
    THEN Path("/api/categories", 0)
    ELSE IF call.op \in {"categories.get", "categories.update", "categories.delete"}
    THEN Path("/api/categories", call.input.id)
    ELSE IF call.op \in {"transactions.list", "transactions.create"}
    THEN Path("/api/transactions", 0)
    ELSE IF call.op \in {"transactions.get", "transactions.update", "transactions.delete"}
    THEN Path("/api/transactions", call.input.id)
    ELSE IF call.op = "dashboard.summary" THEN Path("/api/dashboard/summary", 0)
    ELSE Path("/api/dashboard/by-category", 0)

\* app.use("/api/auth/*", ...) matches the path
IsAuthPath(path) == path[1] = "/api/auth/signin"

\* what a request has seen so far: the count of categoryService.delete, the
\* references at its delete statement, whether the category was there before
\* and after that statement (-1: not run)
NoObs == [counted |-> -1, refsAtDelete |-> -1, existedAtDelete |-> FALSE,
          existsAfter |-> FALSE]

Request(pc, ip, cred, call, session) ==
    [pc |-> pc, ip |-> ip, cred |-> cred, op |-> call.op, input |-> call.input,
     path |-> PathOf(call), session |-> session, status |-> 0, code |-> "",
     served |-> 0, nth |-> 0, obs |-> NoObs]

Idle == [Request("idle", "unknown", "", Operation("auth", NoInput), NoSession)
            EXCEPT !.op = ""]

Slots == {1, 2}

\* Spec answers one request before it receives the next
AppSlots == {1}

\* c.json(...): the request is answered
Finish(r, response) ==
    [r EXCEPT !.pc = "done", !.status = response.status, !.code = response.code]

\* one more statement of a service has run for the request
Served(r) == [r EXCEPT !.served = @ + 1]

----------------------------------------------------------------------------
(* Validation (zValidator) *)

\* createTransactionSchema
ValidCreateTransaction(input) ==
    input.categoryId # 0 /\ input.amount > 0 /\ input.transactionDate # 0

\* updateTransactionSchema = createTransactionSchema.partial()
ValidUpdateTransaction(input) == input.amount = -1 \/ input.amount > 0

\* createCategorySchema
ValidCreateCategory(input) == input.name # "" /\ input.type \in Types

\* updateCategorySchema = createCategorySchema.partial()
ValidUpdateCategory(input) == input.type = "" \/ input.type \in Types

\* dashboardFilterSchema
ValidDashboardFilter(input) ==
    input.year \in 2000..2100 /\ input.month \in 0..12

ValidationFailed == Response(400, "VALIDATION_ERROR")

NotFound == Response(404, "NOT_FOUND")

----------------------------------------------------------------------------
(* The rate-limit middleware *)

RateLimitOptions(windowMs, maxRequests) ==
    [windowMs |-> windowMs, maxRequests |-> maxRequests]

authRateLimit == RateLimitOptions(WindowMs, AuthMax)
apiRateLimit == RateLimitOptions(WindowMs, ApiMax)

\* the middleware rateLimit(opts)'s answer to a denied request
RateLimited == Response(429, "RATE_LIMITED")

DenyWithoutReturn(r) ==
    [r EXCEPT !.status = RateLimited.status, !.code = RateLimited.code]

\* if (!result.allowed) return c.json(..., 429)
Deny(r) == Finish(r, RateLimited)

\* The middlewares and the handler a request runs through, in the order of
\* app.use / app.all / app.route: the stage after `stage`.
FirstStage(path) == IF IsAuthPath(path) THEN "authRateLimit" ELSE "apiRateLimit"

StageAfter(stage, path) ==
    IF stage = "authRateLimit" THEN "apiRateLimit"
    ELSE IF stage = "apiRateLimit"
    THEN (IF IsAuthPath(path) THEN "authHandler" ELSE "ownerOnly")
    ELSE "route"

\* rateLimit(opts) at stage `stage` of the request in slot s
RateLimit(s, stage, opts) ==
    LET r == reqs[s]
        key == RateLimitKey(r.ip, r.path)
        c == checkRateLimit(inMemoryStore, redisStore, key,
                            opts.windowMs, opts.maxRequests, now)
        first == stage = FirstStage(r.path)
        w == WindowAfterCall(Get(win, key, NoWindow), opts.windowMs, now)
        counted == IF first THEN [r EXCEPT !.nth = IF w.tracked THEN w.calls ELSE 0]
                   ELSE r
    IN  /\ r.pc = stage
        /\ inMemoryStore' = c.mem
        /\ \E fault \in StoreFaults(Get(redisStore, key, NoKey), now) :
              IF fault # ""
              THEN \* checkRateLimit throws and nothing catches it before
                   \* app.onError; the history holds the calls that returned
                   /\ redisStore' = UpstashFaulted(redisStore, key, fault, now)
                   /\ win' = win
                   /\ reqs' = [reqs EXCEPT ![s] =
                                 Finish(r, errorHandler("fetch failed"))]
              ELSE /\ redisStore' = c.redis
                   /\ win' = IF first THEN Set(win, key, w) ELSE win
                   /\ reqs' = [reqs EXCEPT ![s] =
                                 IF ~c.result.allowed
                                 THEN Deny(counted)
                                 ELSE [counted EXCEPT
                                          !.pc = StageAfter(stage, r.path)]]
        /\ UNCHANGED <<now, upstashRedis, options, lastCheck, OWNER_EMAIL,
                       dbVars, issued, queryVars, procVars>>

AuthRateLimit(s) == RateLimit(s, "authRateLimit", authRateLimit)

ApiRateLimit(s) == RateLimit(s, "apiRateLimit", apiRateLimit)

\* app.all("/api/auth/*", (c) => auth.handler(c.req.raw))
AuthHandler(s) ==
    /\ reqs[s].pc = "authHandler"
    /\ reqs' = [reqs EXCEPT ![s] = Finish(reqs[s], Success)]
    /\ UNCHANGED <<rlVars, OWNER_EMAIL, dbVars, issued, queryVars, procVars>>

\* app.use("*", ownerOnlyMiddleware) of the three route modules
OwnerOnly(s) ==
    LET r == reqs[s]
        gate == ownerOnlyMiddleware(r.cred, OWNER_EMAIL)
    IN  /\ r.pc = "ownerOnly"
        /\ reqs' = [reqs EXCEPT ![s] =
                      IF gate.next
                      THEN [r EXCEPT !.pc = StageAfter("ownerOnly", r.path),
                                     !.session = gate.session]
                      ELSE Finish(r, gate.response)]
        /\ UNCHANGED <<rlVars, OWNER_EMAIL, dbVars, issued, queryVars, procVars>>

----------------------------------------------------------------------------
(* The route handlers.  Each action is one awaited statement of a handler  *)
(* together with the code that runs up to the next await.                  *)

AtRoute(s, op) == reqs[s].pc = "route" /\ reqs[s].op = op

\* the statement's tables are written and the request moves on
Commit(s, dbResult, r) ==
    /\ categories' = dbResult.cats
    /\ transactions' = dbResult.txs
    /\ reqs' = [reqs EXCEPT ![s] = r]
    /\ UNCHANGED <<rlVars, OWNER_EMAIL, issued, queryVars, procVars>>

Unchanged == DbResult("", categories, transactions, 0)

\* GET /categories
CategoriesList(s) ==
    /\ AtRoute(s, "categories.list")
    /\ Commit(s, Unchanged, Finish(Served(reqs[s]), Success))
    /\ UNCHANGED <<catSeq, txSeq, procVars>>

\* GET /categories/:id
CategoriesGet(s) ==
    /\ AtRoute(s, "categories.get")
    /\ Commit(s, Unchanged,
              Finish(Served(reqs[s]),
                     IF reqs[s].input.id \in DOMAIN categories THEN Success
                     ELSE NotFound))
    /\ UNCHANGED <<catSeq, txSeq, procVars>>

\* POST /categories
CategoriesCreate(s) ==
    LET r == reqs[s]
        res == InsertCategory(categories, transactions, catSeq + 1,
                              CategoryRow(r.input.name, r.input.type))
    IN  /\ AtRoute(s, "categories.create")
        /\ IF ~ValidCreateCategory(r.input)
           THEN Commit(s, Unchanged, Finish(r, ValidationFailed))
                /\ UNCHANGED catSeq
           ELSE /\ catSeq < MaxCats
                /\ Commit(s, res, Finish(Served(r), AnswerOf(res, Success)))
                /\ catSeq' = catSeq + 1
        /\ UNCHANGED txSeq

\* PUT /categories/:id
CategoriesUpdate(s) ==
    LET r == reqs[s]
        res == UpdateCategory(categories, transactions, r.input.id, r.input)
    IN  /\ AtRoute(s, "categories.update")
        /\ IF ~ValidUpdateCategory(r.input)
           THEN Commit(s, Unchanged, Finish(r, ValidationFailed))
           ELSE Commit(s, res,
                       Finish(Served(r),
                              AnswerOf(res, IF res.rows = 0 THEN NotFound
                                            ELSE Success)))
        /\ UNCHANGED <<catSeq, txSeq, procVars>>

\* CategoryService.delete: `count > 0` returns false before any delete
HasTransactions(count) == count > 0

DeletedAnswerNotFound(deleted) == IF ~deleted THEN NotFound ELSE Success

\* DELETE /categories/:id: the answer to categoryService.delete's result
DeletedAnswer(deleted) ==
    IF ~deleted THEN Response(400, "VALIDATION_ERROR") ELSE Success

\* DELETE /categories/:id, first statement: count the transactions
CategoriesDeleteCount(s) ==
    LET r == reqs[s]
        count == Cardinality(Referencing(transactions, r.input.id))
        seen == [Served(r) EXCEPT !.obs.counted = count]
    IN  /\ AtRoute(s, "categories.delete")
        /\ Commit(s, Unchanged,
                  IF HasTransactions(count)
                  THEN Finish([seen EXCEPT !.obs.existsAfter =
                                              r.input.id \in DOMAIN categories],
                              DeletedAnswer(FALSE))
                  ELSE [seen EXCEPT !.pc = "deleteRow"])
        /\ UNCHANGED <<catSeq, txSeq, procVars>>

\* DELETE /categories/:id, second statement: delete the row
CategoriesDeleteRow(s) ==
    LET r == reqs[s]
        res == DeleteCategoryRow(categories, transactions, r.input.id)
        seen == [Served(r) EXCEPT
                    !.obs.refsAtDelete =
                        Cardinality(Referencing(transactions, r.input.id)),
                    !.obs.existedAtDelete = r.input.id \in DOMAIN categories,
                    !.obs.existsAfter = r.input.id \in DOMAIN res.cats]
    IN  /\ r.pc = "deleteRow"
        /\ Commit(s, res, Finish(seen, AnswerOf(res, DeletedAnswer(res.rows > 0))))
        /\ UNCHANGED <<catSeq, txSeq, procVars>>

\* GET /transactions
TransactionsList(s) ==
    /\ AtRoute(s, "transactions.list")
    /\ Commit(s, Unchanged, Finish(Served(reqs[s]), Success))
    /\ UNCHANGED <<catSeq, txSeq, procVars>>

\* GET /transactions/:id
TransactionsGet(s) ==
    /\ AtRoute(s, "transactions.get")
    /\ Commit(s, Unchanged,
              Finish(Served(reqs[s]),
                     IF reqs[s].input.id \in DOMAIN transactions THEN Success
                     ELSE NotFound))
    /\ UNCHANGED <<catSeq, txSeq, procVars>>

\* POST /transactions, first statement: TransactionService.create's insert
TransactionsCreate(s) ==
    LET r == reqs[s]
        row == TransactionRow(r.input.categoryId, dollarsToCents(r.input.amount),
                              r.input.transactionDate)
        res == InsertTransaction(categories, transactions, txSeq + 1, row)
    IN  /\ AtRoute(s, "transactions.create")
        /\ IF ~ValidCreateTransaction(r.input)
           THEN Commit(s, Unchanged, Finish(r, ValidationFailed))
                /\ UNCHANGED txSeq
           ELSE /\ txSeq < MaxTxs
                /\ Commit(s, res,
                          IF res.error # ""
                          THEN Finish(Served(r), errorHandler(res.error))
                          ELSE [Served(r) EXCEPT !.pc = "created",
                                                 !.input.id = txSeq + 1])
                /\ txSeq' = IF res.error # "" THEN txSeq ELSE txSeq + 1
        /\ UNCHANGED catSeq

\* POST /transactions, second statement: getById(created.id)
TransactionsCreated(s) ==
    LET r == reqs[s]
    IN  /\ r.pc = "created"
        /\ Commit(s, Unchanged,
                  Finish(Served(r),
                         IF r.input.id \in DOMAIN transactions THEN Success
                         ELSE errorHandler("Failed to create transaction")))
        /\ UNCHANGED <<catSeq, txSeq, procVars>>

\* PUT /transactions/:id, first statement: TransactionService.update's update
TransactionsUpdate(s) ==
    LET r == reqs[s]
        res == UpdateTransaction(categories, transactions, r.input.id,
                                 UpdateData(r.input))
    IN  /\ AtRoute(s, "transactions.update")
        /\ IF ~ValidUpdateTransaction(r.input)
           THEN Commit(s, Unchanged, Finish(r, ValidationFailed))
           ELSE Commit(s, res,
                       IF res.error # "" THEN Finish(Served(r), errorHandler(res.error))
                       ELSE IF res.rows = 0 THEN Finish(Served(r), NotFound)
                       ELSE [Served(r) EXCEPT !.pc = "updated"])
        /\ UNCHANGED <<catSeq, txSeq, procVars>>

\* PUT /transactions/:id, second statement: getById(id)
TransactionsUpdated(s) ==
    LET r == reqs[s]
    IN  /\ r.pc = "updated"
        /\ Commit(s, Unchanged,
                  Finish(Served(r),
                         IF r.input.id \in DOMAIN transactions THEN Success
                         ELSE NotFound))
        /\ UNCHANGED <<catSeq, txSeq, procVars>>

\* DELETE /transactions/:id
TransactionsDelete(s) ==
    LET r == reqs[s]
        res == DeleteTransaction(categories, transactions, r.input.id)
    IN  /\ AtRoute(s, "transactions.delete")
        /\ Commit(s, res,
                  Finish(Served(r), IF res.rows > 0 THEN Success ELSE NotFound))
        /\ UNCHANGED <<catSeq, txSeq, procVars>>

\* GET /dashboard/summary
DashboardSummary(s) ==
    LET r == reqs[s]
        summary == getSummary(categories, transactions, r.input.year, r.input.month)
    IN  /\ AtRoute(s, "dashboard.summary")
        /\ IF ~ValidDashboardFilter(r.input)
           THEN Commit(s, Unchanged, Finish(r, ValidationFailed))
           ELSE Commit(s, Unchanged,
                       Finish(Served(r),
                              IF summary.error # "" THEN errorHandler(summary.error)
                              ELSE Success))
        /\ UNCHANGED <<catSeq, txSeq, procVars>>

\* GET /dashboard/by-category
DashboardByCategory(s) ==
    LET r == reqs[s]
        selected == SelectInPeriod(transactions,
                                   DateCondition(r.input.year, r.input.month))
    IN  /\ AtRoute(s, "dashboard.byCategory")
        /\ IF ~ValidDashboardFilter(r.input)
           THEN Commit(s, Unchanged, Finish(r, ValidationFailed))
           ELSE Commit(s, Unchanged,
                       Finish(Served(r),
                              IF selected.error # "" THEN errorHandler(selected.error)
                              ELSE Success))
        /\ UNCHANGED <<catSeq, txSeq, procVars>>

Handle(s) ==
    \/ CategoriesList(s)
    \/ CategoriesGet(s)
    \/ CategoriesCreate(s)
    \/ CategoriesUpdate(s)
    \/ CategoriesDeleteCount(s)
    \/ CategoriesDeleteRow(s)
    \/ TransactionsList(s)
    \/ TransactionsGet(s)
    \/ TransactionsCreate(s)
    \/ TransactionsCreated(s)
    \/ TransactionsUpdate(s)
    \/ TransactionsUpdated(s)
    \/ TransactionsDelete(s)
    \/ DashboardSummary(s)
    \/ DashboardByCategory(s)

----------------------------------------------------------------------------
(* Spec: the application *)

NoDash == [year |-> 0, month |-> 0, summary |-> Summary("", 0, 0)]

NoGrouped == [year |-> 0, month |-> 0, result |-> ByCategory("", <<>>, <<>>)]

NoListed == [called |-> FALSE, filter |-> TransactionFilter(1, 1, 0, 0, 0, ""),
             result |-> ListResult("", <<>>, 0), status |-> 0, totalPages |-> 0]

NoCalc == [dollars |-> -1, cents |-> 0, back |-> 0]

\* the callers of checkRateLimit that run at the same time
Procs == {1, 2}

\* a caller that is in no call: pc is the await the call is at, `at` the
\* value of Date.now() the call began with, count the value incr returned
NotCalling == [pc |-> "idle", at |-> -1, count |-> 0]

\* history of the stored window of the key: when the counter was last set
\* to 1 (-1: never), how many calls since then were answered allowed, and
\* (SpecBurst) the calls of the last windowMs: their time, the window they
\* were counted in and their answer
NoHist == [opened |-> -1, granted |-> 0, recent |-> <<>>]

\* the network addresses of the clients
Addresses == {"10.0.0.1", "10.0.0.2"}

NoCaller == [address |-> "", xForwardedFor |-> "", cfConnectingIp |-> "",
             result |-> RateLimitResult(FALSE, 0, -1),
             sent |-> [a \in Addresses |-> 0]]

NoPair == [key |-> <<>>, at |-> -1, memory |-> RateLimitResult(FALSE, 0, -1),
           shared |-> RateLimitResult(FALSE, 0, -1)]

\* the state of a process that has just started, with an empty database
Started ==
    /\ now = 0
    /\ inMemoryStore = <<>>
    /\ redisStore = <<>>
    /\ lastCheck = NoCheck
    /\ win = <<>>
    /\ reqs = [s \in Slots |-> Idle]
    /\ issued = 0
    /\ dash = NoDash
    /\ grouped = NoGrouped
    /\ listed = NoListed
    /\ calc = NoCalc
    /\ pair = NoPair
    /\ caller = NoCaller
    /\ procs = [p \in Procs |-> NotCalling]
    /\ hist = NoHist

EmptyTables ==
    /\ categories = <<>>
    /\ transactions = <<>>
    /\ catSeq = 0
    /\ txSeq = 0

Init ==
    /\ Started
    /\ EmptyTables
    /\ upstashRedis \in BOOLEAN
    /\ options = apiRateLimit
    /\ OWNER_EMAIL \in {Owner, ""}

\* time passes (SpecRL)
Tick ==
    /\ \E t \in TimePoints : t > now /\ now' = t
    /\ lastCheck' = NoCheck
    /\ UNCHANGED <<upstashRedis, inMemoryStore, redisStore, options, win,
                   OWNER_EMAIL, dbVars, reqs, issued, queryVars, procVars>>

\* a request arrives
Receive(s) ==
    /\ reqs[s].pc \in {"idle", "done"}
    /\ issued < MaxRequests
    /\ \E ip \in IPs, cred \in Credentials, call \in RouteCalls :
          reqs' = [reqs EXCEPT ![s] =
                     Request(FirstStage(PathOf(call)), ip, cred, call, NoSession)]
    /\ issued' = issued + 1
    /\ UNCHANGED <<rlVars, OWNER_EMAIL, dbVars, queryVars, procVars>>

Next ==
    \E s \in AppSlots :
        \/ Receive(s)
        \/ AuthRateLimit(s)
        \/ ApiRateLimit(s)
        \/ AuthHandler(s)
        \/ OwnerOnly(s)
        \/ Handle(s)

Spec == Init /\ [][Next]_vars

----------------------------------------------------------------------------
(* SpecStore: the route handlers of the owner's requests, interleaved *)

InitStore ==
    /\ Started
    /\ EmptyTables
    /\ upstashRedis = FALSE
    /\ options = apiRateLimit
    /\ OWNER_EMAIL = Owner

\* a request of the owner reaches its route handler
Call(s) ==
    /\ reqs[s].pc \in {"idle", "done"}
    /\ issued < MaxRequests
    /\ \E call \in ServiceCalls :
          reqs' = [reqs EXCEPT ![s] =
                     Request("route", "10.0.0.1", OWNER_EMAIL, call,
                             getSession(OWNER_EMAIL))]
    /\ issued' = issued + 1
    /\ UNCHANGED <<rlVars, OWNER_EMAIL, dbVars, queryVars, procVars>>

NextStore == \E s \in Slots : Call(s) \/ Handle(s)

SpecStore == InitStore /\ [][NextStore]_vars

----------------------------------------------------------------------------
(* SpecRL: checkRateLimit called directly *)

InitRL ==
    /\ Started
    /\ EmptyTables
    /\ upstashRedis \in BOOLEAN
    /\ options \in {RateLimitOptions(WindowMs, n) : n \in 1..MaxN}
    /\ OWNER_EMAIL = Owner

Check(key) ==
    LET r == checkRateLimit(inMemoryStore, redisStore, key,
                            options.windowMs, options.maxRequests, now)
        w == WindowAfterCall(Get(win, key, NoWindow), options.windowMs, now)
    IN  /\ RedisLive(Get(redisStore, key, NoKey), now).count < MaxCount
        /\ Get(win, key, NoWindow).calls < MaxCount
        /\ inMemoryStore' = r.mem
        /\ redisStore' = r.redis
        /\ win' = Set(win, key, w)
        /\ lastCheck' = [key |-> key, at |-> now,
                         before |-> Get(inMemoryStore, key, NoRecord),
                         result |-> r.result,
                         nth |-> IF w.tracked THEN w.calls ELSE 0]
        /\ UNCHANGED <<now, upstashRedis, options, OWNER_EMAIL, dbVars, reqs,
                       issued, queryVars, procVars>>

NextRL == Tick \/ \E key \in RLKeys : Check(key)

SpecRL == InitRL /\ [][NextRL]_vars

----------------------------------------------------------------------------
(* SpecAgg: the dashboard queries over every small store *)

AggDates == {20240131, 20240201, 20240229, 20241231}

AggCents == {1, 3}

\* the tables hold MaxCats categories of either kind and up to MaxTxs
\* transactions, each of a category that exists
InitAgg ==
    /\ Started
    /\ upstashRedis = FALSE
    /\ options = apiRateLimit
    /\ OWNER_EMAIL = Owner
    /\ categories \in [CatIds -> {CategoryRow("Food", t) : t \in Types}]
    /\ catSeq = MaxCats
    /\ \E n \in 0..MaxTxs :
          /\ txSeq = n
          /\ transactions \in [1..n -> {TransactionRow(c, a, d) :
                                          c \in CatIds, a \in AggCents, d \in AggDates}]

\* dashboardService.getSummary({ year, month })
GetSummary(year, month) ==
    /\ dash' = [year |-> year, month |-> month,
                summary |-> getSummary(categories, transactions, year, month)]
    /\ grouped' = NoGrouped
    /\ UNCHANGED <<rlVars, OWNER_EMAIL, dbVars, reqs, issued, listed, calc, procVars>>

\* dashboardService.getByCategory({ year, month })
GetByCategory(year, month) ==
    /\ \E result \in getByCategory(categories, transactions, year, month) :
          grouped' = [year |-> year, month |-> month, result |-> result]
    /\ dash' = NoDash
    /\ UNCHANGED <<rlVars, OWNER_EMAIL, dbVars, reqs, issued, listed, calc, procVars>>

NextAgg ==
    \E year \in {2023, 2024}, month \in 0..12 :
        \/ GetSummary(year, month)
        \/ GetByCategory(year, month)

SpecAgg == InitAgg /\ [][NextAgg]_vars

----------------------------------------------------------------------------
(* SpecCurrency: the two conversions applied to every small dollar amount *)

\* the largest dollar amount converted, in thousandths of a dollar
MaxThousandths == 1200

InitCurrency ==
    /\ Started
    /\ upstashRedis = FALSE
    /\ options = apiRateLimit
    /\ OWNER_EMAIL = Owner
    /\ categories = <<>>
    /\ transactions = <<>>
    /\ catSeq = 0
    /\ txSeq = 0

\* centsToDollars(dollarsToCents(dollars))
Convert(dollars) ==
    /\ calc' = [dollars |-> dollars, cents |-> dollarsToCents(dollars),
                back |-> centsToDollars(dollarsToCents(dollars))]
    /\ UNCHANGED <<rlVars, OWNER_EMAIL, dbVars, reqs, issued, dash, grouped, listed, procVars>>

NextCurrency == \E dollars \in 0..MaxThousandths : Convert(dollars)

SpecCurrency == InitCurrency /\ [][NextCurrency]_vars

----------------------------------------------------------------------------
(* SpecList: GET /transactions over every small store *)

ListDates == {20240131, 20240201, 20240229}

\* page, limit and the filters of the calls
ListFilters ==
    {TransactionFilter(page, limit, range[1], range[2], categoryId, type) :
        page \in 1..3, limit \in 1..2,
        range \in {<<0, 0>>, <<20240201, 0>>, <<0, 20240201>>, <<20240131, 20240201>>},
        categoryId \in {0, 1}, type \in {"", "expense"}}

\* the tables hold MaxCats categories, the first of kind income, and up to
\* MaxTxs transactions, each of a category that exists
InitList ==
    /\ Started
    /\ upstashRedis = FALSE
    /\ options = apiRateLimit
    /\ OWNER_EMAIL = Owner
    /\ categories = [i \in CatIds |->
                        CategoryRow("Food", IF i = 1 THEN "income" ELSE "expense")]
    /\ catSeq = MaxCats
    /\ \E n \in 0..MaxTxs :
          /\ txSeq = n
          /\ transactions \in [1..n -> {TransactionRow(c, 1, d) :
                                          c \in CatIds, d \in ListDates}]

\* GET /transactions: transactionService.list(filter), then totalPages
List(filter) ==
    /\ \E result \in list(categories, transactions, filter) :
          listed' = [called |-> TRUE, filter |-> filter, result |-> result,
                     status |-> IF result.error # ""
                                THEN errorHandler(result.error).status
                                ELSE Success.status,
                     totalPages |-> IF result.error # "" THEN 0
                                    ELSE Ceil(result.total, filter.limit)]
    /\ UNCHANGED <<rlVars, OWNER_EMAIL, dbVars, reqs, issued, dash, grouped, calc, procVars>>

NextList == \E filter \in ListFilters : List(filter)

SpecList == InitList /\ [][NextList]_vars

----------------------------------------------------------------------------
(* SpecPair: two processes, the first with the in-memory store and the     *)
(* second with the shared store, are given the same checks at the same     *)
(* times.                                                                  *)

InitPair ==
    /\ Started
    /\ EmptyTables
    /\ upstashRedis = FALSE
    /\ options \in {RateLimitOptions(WindowMs, n) : n \in 1..MaxN}
    /\ OWNER_EMAIL = Owner

\* checkRateLimit(key, windowMs, maxRequests) in both processes
CheckPair(key) ==
    LET m == InMemoryCheck(Get(inMemoryStore, key, NoRecord),
                           options.windowMs, options.maxRequests, now)
        u == UpstashCheck(Get(redisStore, key, NoKey),
                          options.windowMs, options.maxRequests, now)
    IN  /\ RedisLive(Get(redisStore, key, NoKey), now).count < MaxCount
        /\ inMemoryStore' = Set(inMemoryStore, key, m.record)
        /\ redisStore' = Set(redisStore, key, u.entry)
        /\ pair' = [key |-> key, at |-> now, memory |-> m.result,
                    shared |-> u.result]
        /\ UNCHANGED <<now, upstashRedis, options, lastCheck, win, OWNER_EMAIL,
                       dbVars, reqs, issued, queryVars, caller, procs, hist>>

NextPair == Tick \/ \E key \in RLKeys : CheckPair(key)

SpecPair == InitPair /\ [][NextPair]_vars

----------------------------------------------------------------------------
(* SpecDeny: the application, taken up when one client has used all but    *)
(* one request of its budget of the window on /api/categories              *)

SpentKey == RateLimitKey("10.0.0.1", Path("/api/categories", 0))

\* the process after ApiMax - 1 requests of the client to /api/categories,
\* none of which stored a row
InitDeny ==
    /\ now = 0
    /\ upstashRedis \in BOOLEAN
    /\ inMemoryStore = IF upstashRedis THEN <<>>
                       ELSE [k \in {SpentKey} |->
                               [count |-> ApiMax - 1, resetTime |-> now + WindowMs]]
    /\ redisStore = IF upstashRedis
                    THEN [k \in {SpentKey} |->
                            [count |-> ApiMax - 1, expireAt |-> now + WindowMs]]
                    ELSE <<>>
    /\ win = [k \in {SpentKey} |-> [tracked |-> TRUE, start |-> now,
                                    calls |-> ApiMax - 1]]
    /\ lastCheck = NoCheck
    /\ reqs = [s \in Slots |-> Idle]
    /\ issued = 0
    /\ dash = NoDash
    /\ grouped = NoGrouped
    /\ listed = NoListed
    /\ calc = NoCalc
    /\ pair = NoPair
    /\ caller = NoCaller
    /\ procs = [p \in Procs |-> NotCalling]
    /\ hist = NoHist
    /\ EmptyTables
    /\ options = apiRateLimit
    /\ OWNER_EMAIL = Owner

SpecDeny == InitDeny /\ [][Next]_vars

----------------------------------------------------------------------------
(* SpecClients: the rate-limit middleware under the requests of two        *)
(* clients to one route; a request carries its client's address in each    *)
(* of the two headers, or does not carry the header                        *)

InitClients ==
    /\ Started
    /\ EmptyTables
    /\ upstashRedis \in BOOLEAN
    /\ options \in {RateLimitOptions(WindowMs, n) : n \in 1..MaxN}
    /\ OWNER_EMAIL = Owner

\* rateLimit(options) on a request of the client at `address` to
\* /api/categories
ClientRequest(address, xForwardedFor, cfConnectingIp) ==
    LET key == RateLimitKey(ClientIp(xForwardedFor, cfConnectingIp),
                            Path("/api/categories", 0))
        c == checkRateLimit(inMemoryStore, redisStore, key,
                            options.windowMs, options.maxRequests, now)
    IN  /\ caller.sent[address] < MaxCount
        /\ inMemoryStore' = c.mem
        /\ redisStore' = c.redis
        /\ caller' = [address |-> address, xForwardedFor |-> xForwardedFor,
                      cfConnectingIp |-> cfConnectingIp, result |-> c.result,
                      sent |-> [caller.sent EXCEPT ![address] = @ + 1]]
        /\ UNCHANGED <<now, upstashRedis, options, lastCheck, win, OWNER_EMAIL,
                       dbVars, reqs, issued, queryVars, pair, procs, hist>>

NextClients ==
    \E address \in Addresses :
        \E xForwardedFor, cfConnectingIp \in {address, ""} :
            ClientRequest(address, xForwardedFor, cfConnectingIp)

SpecClients == InitClients /\ [][NextClients]_vars

----------------------------------------------------------------------------
(* SpecProc: checkRateLimit called on one key by callers that run at the   *)
(* same time.  The in-memory branch has no await and runs as one step; the *)
(* Upstash branch is interleaved at its awaits, and a caller may stop      *)
(* between the two.                                                        *)

ProcKey == RateLimitKey("10.0.0.1", Path("/api/categories", 0))

InitProc ==
    /\ Started
    /\ EmptyTables
    /\ upstashRedis \in BOOLEAN
    /\ options \in {RateLimitOptions(WindowMs, n) : n \in 1..MaxN}
    /\ OWNER_EMAIL = Owner

FirstIncrementAlways(result) == TRUE

\* if (result === 1): the call that created the key sets its expiry
FirstIncrement(result) == result = 1

UpstashResultOffByOne(count, windowMs, maxRequests, t) ==
    RateLimitResult(count <= maxRequests + 1, Max(0, maxRequests - count),
                    t + windowMs)

\* the result of the Upstash branch for the count incr returned
UpstashResult(count, windowMs, maxRequests, t) ==
    RateLimitResult(count <= maxRequests, Max(0, maxRequests - count), t + windowMs)

\* return { allowed, remaining, resetTime } of the call that began at `at`
Returned(result, at) ==
    [key |-> ProcKey, at |-> at, before |-> NoRecord, result |-> result, nth |-> 0]

\* the history after a call that left the counter at `count`, answered
\* `allowed`
HistAfter(count, allowed) ==
    IF count = 1 THEN [hist EXCEPT !.opened = now, !.granted = 1]
    ELSE [hist EXCEPT !.granted = IF allowed THEN @ + 1 ELSE @]

\* in-memory branch: the whole call
CheckMem(p) ==
    LET record == Get(inMemoryStore, ProcKey, NoRecord)
        r == InMemoryCheck(record, options.windowMs, options.maxRequests, now)
    IN  /\ ~upstashRedis
        /\ procs[p].pc = "idle"
        /\ inMemoryStore' = Set(inMemoryStore, ProcKey, r.record)
        /\ lastCheck' = Returned(r.result, now)
        /\ hist' = HistAfter(IF r.record = record THEN 0 ELSE r.record.count,
                             r.result.allowed)
        /\ UNCHANGED <<now, upstashRedis, redisStore, options, win, OWNER_EMAIL,
                       dbVars, reqs, issued, queryVars, pair, caller, procs>>

\* Upstash branch: const now = Date.now(), up to the first await
Begin(p) ==
    /\ upstashRedis
    /\ procs[p].pc = "idle"
    /\ RedisLive(Get(redisStore, ProcKey, NoKey), now).count
       + Cardinality({q \in Procs : procs[q].pc = "incr"}) < MaxCount
    /\ procs' = [procs EXCEPT ![p] = [pc |-> "incr", at |-> now, count |-> 0]]
    /\ UNCHANGED <<now, upstashRedis, inMemoryStore, redisStore, options,
                   lastCheck, win, OWNER_EMAIL, dbVars, reqs, issued, queryVars,
                   pair, caller, hist>>

\* await upstashRedis.incr(countKey); a result other than 1 is returned
Incr(p) ==
    LET entry == RedisIncr(Get(redisStore, ProcKey, NoKey), now)
        result == UpstashResult(entry.count, options.windowMs,
                                options.maxRequests, procs[p].at)
    IN  /\ procs[p].pc = "incr"
        /\ redisStore' = Set(redisStore, ProcKey, entry)
        /\ hist' = HistAfter(entry.count, result.allowed)
        /\ IF FirstIncrement(entry.count)
           THEN /\ procs' = [procs EXCEPT ![p].pc = "expire",
                                          ![p].count = entry.count]
                /\ lastCheck' = lastCheck
           ELSE /\ procs' = [procs EXCEPT ![p] = NotCalling]
                /\ lastCheck' = Returned(result, procs[p].at)
        /\ UNCHANGED <<now, upstashRedis, inMemoryStore, options, win,
                       OWNER_EMAIL, dbVars, reqs, issued, queryVars, pair, caller>>

\* await upstashRedis.expire(countKey, Math.ceil(windowMs / 1000)), and the
\* return
Expire(p) ==
    /\ procs[p].pc = "expire"
    /\ redisStore' = Set(redisStore, ProcKey,
                         RedisExpire(Get(redisStore, ProcKey, NoKey),
                                     Ceil(options.windowMs, 1000), now))
    /\ procs' = [procs EXCEPT ![p] = NotCalling]
    /\ lastCheck' = Returned(UpstashResult(procs[p].count, options.windowMs,
                                           options.maxRequests, procs[p].at),
                             procs[p].at)
    /\ UNCHANGED <<now, upstashRedis, inMemoryStore, options, win, OWNER_EMAIL,
                   dbVars, reqs, issued, queryVars, pair, caller, hist>>

\* the caller stops after incr has returned 1 and before expire is sent:
\* its process is ended, or the call to the store fails
Stop(p) ==
    /\ procs[p].pc = "expire"
    /\ procs' = [procs EXCEPT ![p].pc = "stopped"]
    /\ UNCHANGED <<now, upstashRedis, inMemoryStore, redisStore, options,
                   lastCheck, win, OWNER_EMAIL, dbVars, reqs, issued, queryVars,
                   pair, caller, hist>>

NextProc ==
    \/ Tick
    \/ \E p \in Procs : CheckMem(p) \/ Begin(p) \/ Incr(p) \/ Expire(p) \/ Stop(p)

SpecProc == InitProc /\ [][NextProc]_vars

----------------------------------------------------------------------------
(* SpecBurst: checkRateLimit called on one key as the clock advances, with *)
(* the history of the calls of the last windowMs                           *)

InitBurst ==
    /\ Started
    /\ EmptyTables
    /\ upstashRedis \in BOOLEAN
    /\ options \in {RateLimitOptions(WindowMs, n) : n \in 1..MaxN}
    /\ OWNER_EMAIL = Owner

\* the calls of the history made at now - windowMs or later
Within(recent, windowMs) ==
    SelectSeq(recent, LAMBDA call : call.at >= now - windowMs)

\* checkRateLimit(key, windowMs, maxRequests)
BurstCheck ==
    LET before == IF upstashRedis
                  THEN RedisLive(Get(redisStore, ProcKey, NoKey), now).count
                  ELSE Get(inMemoryStore, ProcKey, NoRecord).count
        c == checkRateLimit(inMemoryStore, redisStore, ProcKey,
                            options.windowMs, options.maxRequests, now)
        count == IF upstashRedis THEN Get(c.redis, ProcKey, NoKey).count
                 ELSE Get(c.mem, ProcKey, NoRecord).count
        after == HistAfter(IF c.mem = inMemoryStore /\ c.redis = redisStore
                           THEN 0 ELSE count,
                           c.result.allowed)
    IN  /\ Cardinality({k \in DOMAIN hist.recent :
                          hist.recent[k].opened = hist.opened}) < MaxCount
        /\ inMemoryStore' = c.mem
        /\ redisStore' = c.redis
        /\ lastCheck' = Returned(c.result, now)
        /\ hist' = [after EXCEPT !.recent =
                      Append(Within(hist.recent, options.windowMs),
                             [at |-> now, opened |-> after.opened,
                              allowed |-> c.result.allowed])]
        /\ UNCHANGED <<now, upstashRedis, options, win, OWNER_EMAIL, dbVars, reqs,
                       issued, queryVars, pair, caller, procs>>

NextBurst == Tick \/ BurstCheck

SpecBurst == InitBurst /\ [][NextBurst]_vars

----------------------------------------------------------------------------
\* C1: within one window the first N checks of a key are allowed with
\* remaining N-1, N-2, ..., 0 in that order, and every later check of the
\* window is denied with remaining 0.
C1_FirstNAllowedThenDenied ==
    lastCheck.nth >= 1 =>
        IF lastCheck.nth <= options.maxRequests
        THEN /\ lastCheck.result.allowed
             /\ lastCheck.result.remaining = options.maxRequests - lastCheck.nth
        ELSE /\ ~lastCheck.result.allowed
             /\ lastCheck.result.remaining = 0

C1_Witness ==
    /\ lastCheck.nth = options.maxRequests + 1
    /\ options.maxRequests >= 2
    /\ ~lastCheck.result.allowed

\* the boundary: a check made exactly at the stored record's resetTime
C2_Witness ==
    /\ ~upstashRedis
    /\ lastCheck.at # -1
    /\ lastCheck.before # NoRecord
    /\ lastCheck.at = lastCheck.before.resetTime

\* C2: a check made for a key with no record, or at a time now >= the
\* resetTime of the stored record (now = resetTime included), stores
\* count = 1 and resetTime = now + windowMs and is allowed with remaining
\* maxRequests - 1, however many checks were denied before.
C2_ResetsWhenWindowElapsed ==
    (/\ ~upstashRedis
     /\ lastCheck.at # -1
     /\ \/ lastCheck.before = NoRecord
        \/ lastCheck.at >= lastCheck.before.resetTime)
    => /\ lastCheck.result.allowed
       /\ lastCheck.result.remaining = options.maxRequests - 1
       /\ Get(inMemoryStore, lastCheck.key, NoRecord) =
              [count |-> 1, resetTime |-> lastCheck.at + options.windowMs]

----------------------------------------------------------------------------
\* the fourth request of a client to one auth route in a window is denied
C3_Witness ==
    \E s \in AppSlots :
        /\ reqs[s].pc = "done"
        /\ IsAuthPath(reqs[s].path)
        /\ reqs[s].nth = 4
        /\ reqs[s].status = 429

\* C3: as wired, the first 5 requests of one client to one auth route in a
\* window are allowed and only the 6th is denied; to a general API route the
\* first 100 are allowed and the 101st is denied.
C3_FiveAuthRequestsPerWindow ==
    \A s \in AppSlots :
        LET r == reqs[s]
            max == IF IsAuthPath(r.path) THEN AuthMax ELSE ApiMax
        IN  (r.pc = "done" /\ r.nth >= 1) =>
                IF r.nth <= max THEN r.status # 429 ELSE r.status = 429

----------------------------------------------------------------------------
\* the request has been through the owner gate
PastGate(r) ==
    /\ r.op \notin {"", "auth"}
    /\ r.pc \notin {"idle", "apiRateLimit", "ownerOnly"}
    /\ ~(r.pc = "done" /\ r.status = 429)
    /\ ~(r.pc = "done" /\ r.status = 500 /\ r.served = 0 /\ r.session = NoSession)

\* C4: the owner gate has three outcomes: no session, 401 UNAUTHORIZED; a
\* session whose email differs from OWNER_EMAIL, if only by case, 403
\* FORBIDDEN; a session whose email equals OWNER_EMAIL, the session is
\* attached to the context and the handler runs.
C4_GateThreeOutcomes ==
    \A s \in AppSlots :
        LET r == reqs[s]
        IN  PastGate(r) =>
                IF getSession(r.cred) = NoSession
                THEN r.pc = "done" /\ r.status = 401 /\ r.code = "UNAUTHORIZED"
                ELSE IF r.cred # OWNER_EMAIL
                THEN r.pc = "done" /\ r.status = 403 /\ r.code = "FORBIDDEN"
                ELSE /\ r.session = getSession(r.cred)
                     /\ r.status \notin {401, 403}
                     /\ r.pc = "done" => r.served > 0 \/ r.status = 400

\* a session whose email is the owner's in another case is answered 403
C4_Witness ==
    \E s \in AppSlots :
        /\ reqs[s].cred = "Owner@example.com"
        /\ OWNER_EMAIL = Owner
        /\ reqs[s].pc = "done"
        /\ reqs[s].status = 403

----------------------------------------------------------------------------
\* C5: on the routes of the transaction, category and dashboard modules a
\* service statement runs for a request only after the owner gate has put
\* the owner's session in that request's context; a request answered 401 or
\* 403 has run no service statement, so it leaves the tables as they were.
C5_GateBeforeService ==
    \A s \in AppSlots :
        LET r == reqs[s]
        IN  /\ (r.served > 0 \/ r.pc \in {"route", "deleteRow", "created", "updated"})
               => /\ r.session # NoSession
                  /\ r.session.email = OWNER_EMAIL
                  /\ r.cred = OWNER_EMAIL
            /\ r.status \in {401, 403} => r.served = 0 /\ r.session = NoSession

\* the owner's create has run both its statements and a transaction is stored
C5_Witness ==
    \E s \in AppSlots :
        /\ reqs[s].op = "transactions.create"
        /\ reqs[s].pc = "done"
        /\ reqs[s].status = 200
        /\ reqs[s].served = 2
        /\ reqs[s].session.email = OWNER_EMAIL
        /\ transactions # <<>>

----------------------------------------------------------------------------
\* C6: a delete of a category that transactions reference is refused with
\* 400 VALIDATION_ERROR when the count finds them, is refused in any case,
\* and the category is still there afterwards; a delete of an existing
\* category that no transaction references answers 200 and the category is
\* gone afterwards.
C6_DeleteGuard ==
    \A s \in Slots :
        LET r == reqs[s]
        IN  (r.op = "categories.delete" /\ r.pc = "done") =>
                /\ r.obs.counted > 0 =>
                      /\ r.status = 400
                      /\ r.code = "VALIDATION_ERROR"
                      /\ r.obs.existsAfter
                /\ r.obs.refsAtDelete > 0 =>
                      r.status # 200 /\ r.obs.existsAfter
                /\ (r.obs.existedAtDelete /\ r.obs.refsAtDelete = 0) =>
                      r.status = 200 /\ ~r.obs.existsAfter

\* a delete has been refused because the count found a transaction
C6_Witness ==
    \E s \in Slots :
        /\ reqs[s].op = "categories.delete"
        /\ reqs[s].pc = "done"
        /\ reqs[s].obs.counted > 0
        /\ reqs[s].status = 400

----------------------------------------------------------------------------
\* C7: in every reachable state every stored transaction references a
\* category that exists, whatever the interleaving of the requests.
C7_ReferentialIntegrity ==
    \A i \in DOMAIN transactions : transactions[i].categoryId \in DOMAIN categories

\* a transaction landed between the count and the delete statement of a
\* category delete
C7_Witness ==
    \E s \in Slots :
        /\ reqs[s].op = "categories.delete"
        /\ reqs[s].pc = "done"
        /\ reqs[s].obs.counted = 0
        /\ reqs[s].obs.refsAtDelete > 0

----------------------------------------------------------------------------
\* a validated create has stored an amount of 0 cents
C8_Witness ==
    \E i \in DOMAIN transactions : transactions[i].amountCents = 0

\* C8: after any creates and updates whose amounts passed validation, every
\* stored amountCents is an integer >= 1.
C8_StoredAmountPositive ==
    \A i \in DOMAIN transactions :
        /\ transactions[i].amountCents \in Int
        /\ transactions[i].amountCents >= 1

----------------------------------------------------------------------------
\* the calendar period of a dashboard filter: the first and the last day of
\* the month, or of the year when the month is omitted
CalendarPeriod(year, month) ==
    IF month # 0
    THEN [startDate |-> DateOf(year, month, 1),
          endDate |-> DateOf(year, month, DaysInMonth(year, month))]
    ELSE [startDate |-> DateOf(year, 1, 1), endDate |-> DateOf(year, 12, 31)]

\* the transactions of kind `type` dated inside the calendar period
InCalendarPeriod(year, month, type) ==
    {i \in DOMAIN transactions :
        /\ transactions[i].transactionDate >= CalendarPeriod(year, month).startDate
        /\ transactions[i].transactionDate <= CalendarPeriod(year, month).endDate
        /\ TypeOf(categories, transactions, i) = type}

\* a summary of a February has been asked for
C9_Witness ==
    /\ dash.year # 0
    /\ dash.month = 2
    /\ dash.summary.error # ""

\* C9: for every store and every period the summary raises no error, its
\* incomeCents and expenseCents are the exact sums of amountCents over the
\* transactions of that kind dated inside the period, and balanceCents is
\* their difference; all three are 0 when no transaction matches.
C9_SummaryIsExactSum ==
    dash.year # 0 =>
        /\ dash.summary.error = ""
        /\ dash.summary.incomeCents =
               SumCents(transactions, InCalendarPeriod(dash.year, dash.month, "income"))
        /\ dash.summary.expenseCents =
               SumCents(transactions, InCalendarPeriod(dash.year, dash.month, "expense"))
        /\ dash.summary.balanceCents =
               dash.summary.incomeCents - dash.summary.expenseCents

----------------------------------------------------------------------------
\* a query of a 30-day month has failed
C10_Witness ==
    /\ dash.year # 0
    /\ dash.month \in {4, 6, 9, 11}
    /\ dash.summary.error # ""

\* C10: the bounds of a month's period are its first and its true last
\* calendar day, so the query of every month of every year succeeds; with
\* the month omitted the bounds are Jan 1 and Dec 31.
C10_BoundsAreCalendarMonth ==
    dash.year # 0 =>
        /\ DateCondition(dash.year, dash.month) = CalendarPeriod(dash.year, dash.month)
        /\ SelectInPeriod(transactions, DateCondition(dash.year, dash.month)).error = ""

----------------------------------------------------------------------------
\* the transactions of category c dated inside the calendar period
MatchingOf(year, month, c) ==
    {i \in DOMAIN transactions :
        /\ transactions[i].transactionDate >= CalendarPeriod(year, month).startDate
        /\ transactions[i].transactionDate <= CalendarPeriod(year, month).endDate
        /\ transactions[i].categoryId = c}

\* the result has one entry for category c in the list of c's kind, with the
\* sum and the count of c's matching transactions, or none when c has none
ExactEntry(result, year, month, c) ==
    LET m == MatchingOf(year, month, c)
        entriesIn(rows) == {k \in DOMAIN rows : rows[k].categoryId = c}
        own == IF categories[c].type = "income" THEN result.income ELSE result.expense
        other == IF categories[c].type = "income" THEN result.expense ELSE result.income
    IN  /\ entriesIn(other) = {}
        /\ Cardinality(entriesIn(own)) = IF m = {} THEN 0 ELSE 1
        /\ \A k \in entriesIn(own) :
              /\ own[k].totalCents = SumCents(transactions, m)
              /\ own[k].transactionCount = Cardinality(m)

\* a February query has failed on a store with a transaction of that month
C11_Witness ==
    /\ grouped.year = 2024
    /\ grouped.month = 2
    /\ grouped.result.error # ""
    /\ \E i \in DOMAIN transactions : transactions[i].transactionDate = 20240229

\* C11: byCategory returns one entry for each category with a transaction
\* dated inside the period, with the sum and the count of those transactions,
\* in the income or the expense list according to the category's kind; a
\* category with no matching transaction is in neither list.
C11_OneEntryPerCategory ==
    grouped.year # 0 =>
        /\ grouped.result.error = ""
        /\ \A c \in DOMAIN categories :
              ExactEntry(grouped.result, grouped.year, grouped.month, c)

----------------------------------------------------------------------------
SortedByTotalDesc(rows) ==
    \A a, b \in DOMAIN rows : a < b => rows[a].totalCents >= rows[b].totalCents

\* a result whose expense list holds two categories of equal total
C12_Witness ==
    /\ grouped.year # 0
    /\ Len(grouped.result.expense) >= 2
    /\ grouped.result.expense[1].totalCents = grouped.result.expense[2].totalCents

\* C12: each list of byCategory's result is ordered by total descending, and
\* a call repeated on the same store returns the entries in the same order.
C12_DeterministicOrder ==
    [][(grouped'.year # 0 =>
            /\ SortedByTotalDesc(grouped'.result.income)
            /\ SortedByTotalDesc(grouped'.result.expense))
       /\ ((/\ grouped.year # 0
            /\ grouped'.year = grouped.year
            /\ grouped'.month = grouped.month
            /\ transactions' = transactions
            /\ categories' = categories)
           => grouped'.result = grouped.result)]_vars

----------------------------------------------------------------------------
\* the request in slot s is at its handler and takes its step
StepsAtRoute(s, op) ==
    /\ reqs[s].pc = "route"
    /\ reqs[s].op = op
    /\ reqs'[s] # reqs[s]

\* every row of the table but row id is as it was
OtherRowsKept(before, after, id) ==
    /\ DOMAIN after = DOMAIN before
    /\ \A j \in DOMAIN before \ {id} : after[j] = before[j]

\* the transaction after a partial update by input
UpdatedTransaction(row, input) ==
    TransactionRow(IF input.categoryId # 0 THEN input.categoryId ELSE row.categoryId,
                   IF input.amount # -1 THEN dollarsToCents(input.amount)
                   ELSE row.amountCents,
                   IF input.transactionDate # 0 THEN input.transactionDate
                   ELSE row.transactionDate)

\* the category after a partial update by input
UpdatedCategory(row, input) ==
    CategoryRow(IF input.name # "" THEN input.name ELSE row.name,
                IF input.type # "" THEN input.type ELSE row.type)

\* the update statement of PUT /transactions/:id
TransactionUpdateFrame(s) ==
    LET input == reqs[s].input
        id == input.id
    IN  /\ categories' = categories
        /\ OtherRowsKept(transactions, transactions', id)
        /\ id \notin DOMAIN transactions =>
              /\ transactions' = transactions
              /\ ValidUpdateTransaction(input) =>
                    reqs'[s].pc = "done" /\ reqs'[s].status = 404
        /\ (id \in DOMAIN transactions /\ ValidUpdateTransaction(input)) =>
              IF input.categoryId # 0 /\ input.categoryId \notin DOMAIN categories
              THEN transactions' = transactions /\ reqs'[s].status # 200
              ELSE /\ transactions'[id] = UpdatedTransaction(transactions[id], input)
                   /\ reqs'[s].pc = "updated"

\* the update statement of PUT /categories/:id
CategoryUpdateFrame(s) ==
    LET input == reqs[s].input
        id == input.id
    IN  /\ transactions' = transactions
        /\ OtherRowsKept(categories, categories', id)
        /\ id \notin DOMAIN categories =>
              /\ categories' = categories
              /\ ValidUpdateCategory(input) =>
                    reqs'[s].pc = "done" /\ reqs'[s].status = 404
        /\ (id \in DOMAIN categories /\ ValidUpdateCategory(input)) =>
              /\ categories'[id] = UpdatedCategory(categories[id], input)
              /\ reqs'[s].pc = "done"
              /\ reqs'[s].status = 200

\* an update that supplies no field has been answered with an internal error
C13_Witness ==
    \E s \in Slots :
        /\ reqs[s].op = "transactions.update"
        /\ reqs[s].input = [NoInput EXCEPT !.id = 1]
        /\ 1 \in DOMAIN transactions
        /\ reqs[s].pc = "done"
        /\ reqs[s].status = 500

\* C13: an update of a transaction or a category changes only the supplied
\* fields of that record, leaves its other fields and every other record as
\* they were, and returns the updated record, or not-found with the store
\* unchanged when the id does not exist.
C13_PartialUpdateFrame ==
    [][\A s \in Slots :
          /\ StepsAtRoute(s, "transactions.update") => TransactionUpdateFrame(s)
          /\ StepsAtRoute(s, "categories.update") => CategoryUpdateFrame(s)]_vars

----------------------------------------------------------------------------
\* the request's step answers 404 NOT_FOUND and writes nothing
AnswersNotFound(s) ==
    /\ reqs'[s].pc = "done"
    /\ reqs'[s].status = 404
    /\ reqs'[s].code = "NOT_FOUND"
    /\ categories' = categories
    /\ transactions' = transactions

\* the request in slot s names a category, or a transaction, that does not
\* exist
MissingCategory(s) == reqs[s].input.id \notin DOMAIN categories

MissingTransaction(s) == reqs[s].input.id \notin DOMAIN transactions

\* a delete of a category id that does not exist has been answered 400
C19_Witness ==
    \E s \in Slots :
        /\ reqs[s].op = "categories.delete"
        /\ reqs[s].pc = "done"
        /\ reqs[s].obs.refsAtDelete = 0
        /\ ~reqs[s].obs.existedAtDelete
        /\ reqs[s].status = 400
        /\ reqs[s].code = "VALIDATION_ERROR"

\* C19: a read, an update or a delete of a transaction or a category whose
\* id does not exist is answered 404 NOT_FOUND and leaves the store as it
\* was; a delete of a missing category is not-found, not a validation error.
C19_MissingIdIsNotFound ==
    [][\A s \in Slots :
          /\ (StepsAtRoute(s, "categories.get") /\ MissingCategory(s))
                => AnswersNotFound(s)
          /\ (StepsAtRoute(s, "transactions.get") /\ MissingTransaction(s))
                => AnswersNotFound(s)
          /\ (/\ StepsAtRoute(s, "categories.update")
              /\ MissingCategory(s)
              /\ reqs[s].input.type # "")
                => AnswersNotFound(s)
          /\ (/\ StepsAtRoute(s, "transactions.update")
              /\ MissingTransaction(s)
              /\ ValidUpdateTransaction(reqs[s].input)
              /\ reqs[s].input.amount # -1)
                => AnswersNotFound(s)
          /\ (StepsAtRoute(s, "transactions.delete") /\ MissingTransaction(s))
                => AnswersNotFound(s)
          /\ (/\ reqs[s].pc = "deleteRow"
              /\ reqs'[s] # reqs[s]
              /\ MissingCategory(s))
                => AnswersNotFound(s)]_vars

----------------------------------------------------------------------------
\* the stored transactions that satisfy every filter the call supplies
Satisfying(filter) ==
    {i \in DOMAIN transactions :
        /\ filter.startDate # 0 => transactions[i].transactionDate >= filter.startDate
        /\ filter.endDate # 0 => transactions[i].transactionDate <= filter.endDate
        /\ filter.categoryId # 0 => transactions[i].categoryId = filter.categoryId
        /\ filter.type # "" =>
              categories[transactions[i].categoryId].type = filter.type}

DateDescending(seq) ==
    \A a, b \in DOMAIN seq :
        a < b => transactions[seq[a]].transactionDate >=
                 transactions[seq[b]].transactionDate

\* a list call filtered by category kind has failed
C14_Witness ==
    /\ listed.called
    /\ listed.filter.type = "expense"
    /\ listed.result.error # ""
    /\ listed.status = 500

\* C14: for every combination of the filters startDate, endDate, categoryId
\* and kind, list succeeds, its total is the number of stored transactions
\* that satisfy all supplied filters, and its page holds only such
\* transactions, ordered by date descending.
C14_ListFilters ==
    listed.called =>
        /\ listed.result.error = ""
        /\ listed.result.total = Cardinality(Satisfying(listed.filter))
        /\ \A k \in DOMAIN listed.result.data :
              listed.result.data[k] \in Satisfying(listed.filter)
        /\ DateDescending(listed.result.data)

----------------------------------------------------------------------------
\* C15: totalPages is ceil(total / limit), and page p holds the
\* transactions at positions (p-1)*limit+1 .. p*limit of a date-descending
\* ordering of the matching transactions, so it is empty beyond totalPages.
C15_Pagination ==
    (listed.called /\ listed.result.error = "") =>
        LET page == listed.filter.page
            limit == listed.filter.limit
            total == listed.result.total
            data == listed.result.data
        IN  /\ listed.totalPages * limit >= total
            /\ (listed.totalPages - 1) * limit < total \/ listed.totalPages = 0
            /\ total = Cardinality(Satisfying(listed.filter))
            /\ \E ordering \in Orderings(Satisfying(listed.filter)) :
                  /\ DateDescending(ordering)
                  /\ DOMAIN data =
                        {k \in 1..limit : (page - 1) * limit + k <= total}
                  /\ \A k \in DOMAIN data : data[k] = ordering[(page - 1) * limit + k]
            /\ page > listed.totalPages => data = <<>>

\* the second page of two, one transaction to a page
C15_Witness ==
    /\ listed.called
    /\ listed.result.error = ""
    /\ listed.result.total = 2
    /\ listed.filter.limit = 1
    /\ listed.filter.page = 2
    /\ listed.totalPages = 2
    /\ Len(listed.result.data) = 1

----------------------------------------------------------------------------
----------------------------------------------------------------------------
\* the rate limiter has answered the request in slot s with an internal error
FailedInRateLimit(s) ==
    /\ reqs[s].pc = "done"
    /\ reqs[s].status = 500
    /\ reqs[s].code = "INTERNAL_ERROR"
    /\ reqs[s].served = 0
    /\ reqs[s].session = NoSession

\* the shared store is in use and a request ended in the rate limiter with
\* 500 INTERNAL_ERROR
C17_Witness == upstashRedis /\ \E s \in AppSlots : FailedInRateLimit(s)

\* C17: when the shared store cannot be reached, the rate-limit check still
\* decides: the request is let through or answered 429, never answered with
\* an internal error.
C17_StoreFailureDecides ==
    [][\A s \in AppSlots :
          (reqs[s].pc \in {"authRateLimit", "apiRateLimit"} /\ reqs'[s] # reqs[s])
          => \/ reqs'[s].pc = StageAfter(reqs[s].pc, reqs[s].path)
             \/ reqs'[s].pc = "done" /\ reqs'[s].status = 429]_vars

----------------------------------------------------------------------------
\* the process runs with OWNER_EMAIL unset and its gate has answered a
\* signed-in user 403
C18_Witness ==
    /\ OWNER_EMAIL = ""
    /\ \E s \in AppSlots :
          /\ reqs[s].cred = Owner
          /\ reqs[s].pc = "done"
          /\ reqs[s].status = 403
          /\ reqs[s].code = "FORBIDDEN"

\* C18: a process whose owner e-mail is not configured fails at startup: it
\* never receives a request, so its gate never allows or denies one.
C18_UnsetOwnerFailsAtStartup ==
    OWNER_EMAIL = "" => issued = 0 /\ \A s \in AppSlots : reqs[s].pc = "idle"

----------------------------------------------------------------------------
\* the paths of the requests
RequestPaths == {PathOf(call) : call \in RouteCalls}

\* what the rate limiter holds for the client ip on path q in the stores
\* mem and redis: the counter, and the decision and remaining value that a
\* check with the limit opts would give now
BudgetOf(mem, redis, ip, q, opts) ==
    LET key == RateLimitKey(ip, q)
        record == Get(mem, key, NoRecord)
        entry == Get(redis, key, NoKey)
        result == IF upstashRedis
                  THEN UpstashCheck(entry, opts.windowMs, opts.maxRequests, now).result
                  ELSE InMemoryCheck(record, opts.windowMs, opts.maxRequests, now).result
    IN  <<record, entry, result.allowed, result.remaining>>

----------------------------------------------------------------------------
\* both backends deny a check and report different reset times
C21_Witness ==
    /\ pair.at # -1
    /\ ~pair.memory.allowed
    /\ ~pair.shared.allowed
    /\ pair.memory.resetTime # pair.shared.resetTime

\* C21: given the same checks of a key at the same times with the same
\* windowMs and maxRequests, the in-process backend and the shared-store
\* backend return the same allowed, remaining and resetTime.
C21_BackendsAgree ==
    pair.at # -1 =>
        /\ pair.memory.allowed = pair.shared.allowed
        /\ pair.memory.remaining = pair.shared.remaining
        /\ pair.memory.resetTime = pair.shared.resetTime

----------------------------------------------------------------------------
\* the counter of the key and the end of its window, as the backend in use
\* holds them in the stores mem and redis
StoredCount(mem, redis, key) ==
    IF upstashRedis THEN Get(redis, key, NoKey).count
    ELSE Get(mem, key, NoRecord).count

StoredWindowEnd(mem, redis, key) ==
    IF upstashRedis THEN Get(redis, key, NoKey).expireAt
    ELSE Get(mem, key, NoRecord).resetTime

\* the key's counter has reached maxRequests and its window is still open
WindowFull(key) ==
    /\ StoredCount(inMemoryStore, redisStore, key) >= options.maxRequests
    /\ now < StoredWindowEnd(inMemoryStore, redisStore, key)

\* the step is a check of the key
ChecksKey(key) == now' = now /\ lastCheck'.at = now /\ lastCheck'.key = key

\* the shared store's counter has gone past maxRequests
C22_Witness ==
    /\ upstashRedis
    /\ lastCheck.at # -1
    /\ ~lastCheck.result.allowed
    /\ Get(redisStore, lastCheck.key, NoKey).count > options.maxRequests + 1

\* C22: a check that finds count >= maxRequests inside the current window
\* returns allowed = false, remaining = 0 and the stored window end, and
\* leaves the stored count and the stored window end as they were, in both
\* backends.
C22_DeniedCheckChangesNothing ==
    [][\A key \in RLKeys :
          (ChecksKey(key) /\ WindowFull(key)) =>
              /\ ~lastCheck'.result.allowed
              /\ lastCheck'.result.remaining = 0
              /\ lastCheck'.result.resetTime =
                    StoredWindowEnd(inMemoryStore, redisStore, key)
              /\ StoredCount(inMemoryStore', redisStore', key) =
                    StoredCount(inMemoryStore, redisStore, key)
              /\ StoredWindowEnd(inMemoryStore', redisStore', key) =
                    StoredWindowEnd(inMemoryStore, redisStore, key)]_vars

----------------------------------------------------------------------------
\* the open window of the checked key began at the time of its first check
WindowStart(key) == Get(win, key, NoWindow).start

\* a later allowed check of an open window reports a later reset time
C29_Witness ==
    /\ lastCheck.nth >= 2
    /\ lastCheck.result.allowed
    /\ lastCheck.at > WindowStart(lastCheck.key)
    /\ lastCheck.result.resetTime > WindowStart(lastCheck.key) + options.windowMs

\* C29: every check of a key inside one window reports the same resetTime,
\* the end of that window (time of the window's first check + windowMs),
\* whether it is the first check, a later allowed one or a denied one.
C29_ResetTimeIsWindowEnd ==
    lastCheck.nth >= 1 =>
        lastCheck.result.resetTime = WindowStart(lastCheck.key) + options.windowMs

----------------------------------------------------------------------------
RECURSIVE SumTotalCents(_)
\* the sum of totalCents over a list of byCategory
SumTotalCents(rows) ==
    IF rows = <<>> THEN 0 ELSE rows[1].totalCents + SumTotalCents(Tail(rows))

RECURSIVE SumTransactionCount(_)
\* the sum of transactionCount over a list of byCategory
SumTransactionCount(rows) ==
    IF rows = <<>> THEN 0
    ELSE rows[1].transactionCount + SumTransactionCount(Tail(rows))

\* the twelve monthly summaries of the year return and add up to summary
SumOfMonths(year, summary) ==
    LET monthly(m) == getSummary(categories, transactions, year, m)
        RECURSIVE sum(_, _)
        sum(m, kind) == IF m = 0 THEN 0
                        ELSE (IF kind = "income" THEN monthly(m).incomeCents
                              ELSE monthly(m).expenseCents) + sum(m - 1, kind)
    IN  /\ \A m \in 1..12 : monthly(m).error = ""
        /\ summary.incomeCents = sum(12, "income")
        /\ summary.expenseCents = sum(12, "expense")

\* byCategory, asked right after summary for the same period of the same
\* store, agrees with it
AgreesWithSummary ==
    (dash.year # 0 /\ grouped'.year = dash.year /\ grouped'.month = dash.month) =>
        /\ dash.summary.error = ""
        /\ grouped'.result.error = ""
        /\ SumTotalCents(grouped'.result.income) = dash.summary.incomeCents
        /\ SumTotalCents(grouped'.result.expense) = dash.summary.expenseCents
        /\ SumTransactionCount(grouped'.result.income)
           + SumTransactionCount(grouped'.result.expense)
           = Cardinality(InCalendarPeriod(dash.year, dash.month, "income")
                         \cup InCalendarPeriod(dash.year, dash.month, "expense"))

\* the summary of a year has returned, with a transaction dated in its
\* February, whose monthly summary fails
C30_Witness ==
    /\ dash.year # 0
    /\ dash.month = 0
    /\ dash.summary.error = ""
    /\ dash.summary.incomeCents + dash.summary.expenseCents > 0
    /\ \E i \in DOMAIN transactions :
          /\ YearOf(transactions[i].transactionDate) = dash.year
          /\ MonthOf(transactions[i].transactionDate) = 2
    /\ getSummary(categories, transactions, dash.year, 2).error # ""

\* C30: for every store and every period summary and byCategory agree: the
\* totalCents of the income list add up to incomeCents, those of the expense
\* list to expenseCents, and the transactionCount values to the number of
\* transactions dated inside the period; and the summary of a year is the
\* sum of the twelve monthly summaries of that year.
C30_SummaryAndByCategoryAgree ==
    [][/\ AgreesWithSummary
       /\ (dash.year # 0 /\ dash.month = 0) => SumOfMonths(dash.year, dash.summary)]_vars

----------------------------------------------------------------------------
\* the rate-limit check of the request in slot s, were it made now, denies
DeniesNow(s) ==
    LET key == RateLimitKey(reqs[s].ip, reqs[s].path)
        opts == IF reqs[s].pc = "authRateLimit" THEN authRateLimit ELSE apiRateLimit
    IN  /\ reqs[s].pc \in {"authRateLimit", "apiRateLimit"}
        /\ ~checkRateLimit(inMemoryStore, redisStore, key,
                           opts.windowMs, opts.maxRequests, now).result.allowed

\* the request in slot s has been answered by the rate limiter
Denied(r) == r.pc = "done" /\ r.status = 429

\* C26: a request the rate limiter denies is answered 429 RATE_LIMITED and
\* processing stops there: the step that denies it ends it, so it never
\* comes to the owner gate, the session provider or a route handler, no
\* session is attached to it, no service statement runs for it and the
\* tables stay as they were.
C26_DeniedStopsAtRateLimiter ==
    [][\A s \in AppSlots :
          /\ (DeniesNow(s) /\ reqs'[s] # reqs[s] /\ reqs'[s].status # 500) =>
                /\ Denied(reqs'[s])
                /\ reqs'[s].code = "RATE_LIMITED"
                /\ UNCHANGED dbVars
          /\ reqs'[s].status = 429 =>
                /\ reqs'[s].pc = "done"
                /\ reqs'[s].code = "RATE_LIMITED"
                /\ reqs'[s].served = 0
                /\ reqs'[s].session = NoSession
          /\ (Denied(reqs[s]) /\ reqs'[s] # reqs[s]) =>
                /\ reqs'[s].pc = FirstStage(reqs'[s].path)
                /\ reqs'[s].status = 0
                /\ UNCHANGED dbVars]_vars

\* the owner's request to list the categories has been denied
C26_Witness ==
    \E s \in AppSlots :
        /\ reqs[s].op = "categories.list"
        /\ reqs[s].cred = Owner
        /\ Denied(reqs[s])
        /\ reqs[s].code = "RATE_LIMITED"

----------------------------------------------------------------------------
\* the first request of a client, one without the two headers, is denied
C28_Witness ==
    /\ caller.address # ""
    /\ caller.xForwardedFor = ""
    /\ caller.cfConnectingIp = ""
    /\ caller.sent[caller.address] = 1
    /\ ~caller.result.allowed

\* C28: the requests of one client never change whether another client's
\* request is allowed: a request of the client at one address leaves the
\* counter, the allowed decision and the remaining value of every other
\* client as they were, whichever of the two headers the other client's
\* requests carry, none included.
C28_ClientsIndependent ==
    [][\A other \in Addresses \ {caller'.address} :
          \A xForwardedFor, cfConnectingIp \in {other, ""} :
              BudgetOf(inMemoryStore', redisStore',
                       ClientIp(xForwardedFor, cfConnectingIp),
                       Path("/api/categories", 0), options)
              = BudgetOf(inMemoryStore, redisStore,
                         ClientIp(xForwardedFor, cfConnectingIp),
                         Path("/api/categories", 0), options)]_vars

----------------------------------------------------------------------------
\* a caller is between its incr, which returned 1, and its expire; pc
\* "stopped": it will never send the expire
Pending(p) == procs[p].pc \in {"expire", "stopped"} /\ procs[p].count = 1

\* the step sets the expiry of the key
SetsExpiry ==
    /\ Get(redisStore', ProcKey, NoKey).expireAt # Get(redisStore, ProcKey, NoKey).expireAt
    /\ Get(redisStore', ProcKey, NoKey).expireAt # -1

\* C23: under any interleaving of the callers of the shared-store backend,
\* the expiry of the key is set once per window, by the call whose incr
\* created the key, to the window length in seconds: a step that sets it
\* finds no expiry set, is the expire of the caller whose incr returned 1,
\* and leaves the counter alone; and a key without expiry is one whose
\* creator has not sent its expire yet.
C23_ExpirySetOncePerWindow ==
    [][/\ SetsExpiry =>
            /\ Get(redisStore, ProcKey, NoKey).expireAt = -1
            /\ Get(redisStore', ProcKey, NoKey).count
                  = Get(redisStore, ProcKey, NoKey).count
            /\ Get(redisStore', ProcKey, NoKey).expireAt
                  = now + (options.windowMs \div 1000) * 1000
            /\ \E p \in Procs :
                  /\ procs[p].pc = "expire"
                  /\ procs[p].count = 1
                  /\ procs'[p].pc = "idle"
       /\ (/\ Get(redisStore, ProcKey, NoKey).count >= 1
           /\ Get(redisStore, ProcKey, NoKey).expireAt = -1)
          => \E p \in Procs : Pending(p)]_vars

\* the expiry has been set after another caller's incr came in between
C23_Witness ==
    /\ upstashRedis
    /\ Get(redisStore, ProcKey, NoKey).count = 2
    /\ Get(redisStore, ProcKey, NoKey).expireAt = now + WindowMs
    /\ now > hist.opened
    /\ \A p \in Procs : procs[p].pc = "idle"

----------------------------------------------------------------------------
\* C24: under any interleaving of the callers, no more than maxRequests
\* checks of a key are answered allowed inside one stored window, in both
\* backends.
C24_NoMoreThanMaxAllowed == hist.granted <= options.maxRequests

\* maxRequests checks were allowed and one denied while the call that
\* opened the window is still in flight
C24_Witness ==
    /\ upstashRedis
    /\ options.maxRequests >= 2
    /\ hist.granted = options.maxRequests
    /\ Get(redisStore, ProcKey, NoKey).count > options.maxRequests
    /\ \E p \in Procs : procs[p].pc = "expire"
    /\ ~lastCheck.result.allowed

----------------------------------------------------------------------------
\* the step returns a check, one that began at the time lastCheck'.at
ReturnsCheck == now' = now /\ lastCheck'.at # -1 /\ lastCheck' # lastCheck

\* the caller that created the key has stopped, the key has no expiry and a
\* check made two windows later is denied
C27_Witness ==
    /\ upstashRedis
    /\ \E p \in Procs : procs[p].pc = "stopped"
    /\ Get(redisStore, ProcKey, NoKey).expireAt = -1
    /\ lastCheck.at > hist.opened + 2 * options.windowMs
    /\ ~lastCheck.result.allowed

\* C27: no key is locked out forever: a check that begins after the window
\* which opened with the key's first counted check has elapsed is allowed,
\* whatever was denied in between and also when a caller of the
\* shared-store backend stopped between its incr and its expire.
C27_NoLockout ==
    [][(/\ ReturnsCheck
        /\ hist.opened # -1
        /\ lastCheck'.at > hist.opened + options.windowMs)
       => lastCheck'.result.allowed]_vars

----------------------------------------------------------------------------
\* the calls of the last windowMs (the closed interval from now - windowMs
\* to now), those of them answered allowed, and those counted in the window
\* opened at a given time
RecentCalls == Within(hist.recent, options.windowMs)

AllowedRecently ==
    Cardinality({k \in DOMAIN RecentCalls : RecentCalls[k].allowed})

CallsOfWindow(opened) ==
    Cardinality({k \in DOMAIN RecentCalls : RecentCalls[k].opened = opened})

\* the last windowMs hold maxRequests calls of one window followed by
\* maxRequests calls of the next window
BurstAcrossWindows ==
    /\ Len(RecentCalls) = 2 * options.maxRequests
    /\ CallsOfWindow(hist.opened) = options.maxRequests
    /\ RecentCalls[1].opened # hist.opened

====
